---- MODULE Spec2Model ----
(***************************************************************************)
(* pyannote.database: the lazy record (ProtocolFile), the unified          *)
(* Protocol.files() iteration, meta-protocol subsets and the Registry.     *)
(*                                                                         *)
(* The module holds several specifications over one set of variables:      *)
(*   SpecRec    one ProtocolFile and the mapping operations on it          *)
(*   SpecFiles  one run of Protocol.files()                                *)
(*   SpecMeta   one run of meta_subset_iter                                *)
(*   SpecReg    a Registry and its load_database calls                     *)
(*   SpecExpand ProtocolFile.files() on one record                         *)
(*   SpecSubset create_protocol and the subset_iter generators             *)
(*   SpecTrial  one run of subset_trial                                    *)
(*   SpecFind   FileFinder lookups                                         *)
(*   SpecMerge  _load_protocols on one database                            *)
(*   SpecNest   meta-subsets that reference meta-protocols                 *)
(*   SpecThr    threads on ProtocolFile records                            *)
(* Each specification leaves the variables of the others at their idle     *)
(* values.                                                                 *)
(***************************************************************************)
EXTENDS Integers, Sequences, FiniteSets, TLC

VARIABLES
    \* ---- ProtocolFile (protocol.py:43-134)
    store,        \* self._store : ordered dict key -> value
    lazy,         \* self.lazy   : ordered dict key -> loader
    evaluating,   \* self.evaluating_ : Counter
    calls,        \* history: how many times each key's loader has been invoked
    last,         \* history: the operation the caller issued last, and its outcome
    lastGot,      \* history: value of the latest successful get(k) since the
                  \*          latest set/delete of k
    cancelled,    \* history: calls[k] when a set(k, _) removed k's pending loader
    \* ---- Protocol.files() (protocol.py:242-296)
    progress,       \* self.progress
    progess,        \* self.progess, the attribute line 296 assigns
    savedProgress,  \* local `progress` (line 249)
    fpc,            \* where the generator stands
    fidx,           \* index of `method` in `methods`
    fcount,         \* files the current method has produced so far
    first_file,     \* local `first_file` (line 266)
    yielded_uris,   \* local `yielded_uris` (line 256)
    yieldedFiles,   \* history: the records files() has yielded, in order
    firstOffered,   \* history: first record offered for each identity key
    methodUris,     \* history: identifiers first yielded by the current method
    dropped,        \* history: duplicates dropped so far came from the "same"
                    \*          method as the file kept, or from an "other" one
    \* ---- meta_subset_iter (custom.py:157-192)
    subset_entries, \* ordered dict: protocol full name -> list of subsets
    subset_files,   \* what each registered protocol's {subset}_iter yields
    mpc,            \* where the generator stands
    mp,             \* index of `protocol` in subset_entries
    ms,             \* index of `subset` in `subsets`
    mf,             \* files of the current subset yielded so far
    metaFiles,      \* history: the files the generator has yielded, in order
    \* ---- Registry (registry.py:103-402)
    yml,            \* the YAML files on disk: path -> parsed content
    configs,        \* self.configs: the paths of the loaded files, in dict order
    sources,        \* self.sources: database -> file whose templates it holds
    databases,      \* self.databases: database -> _protocols of its class
    rpc,            \* "idle", or where load_database stands
    stack,          \* the active calls of _load_database_helper
    loading,        \* the set `loading` of the current load_database call
    call,           \* path and mode of the current (or last) load_database call
    outcome,        \* how the last load_database call ended
    events,         \* history: what the current (or last) call did, in order
    dbBefore,       \* history: self.databases when the call started
    cfgBefore,      \* history: self.configs when the call started
    lastLoaded,     \* history: loaded paths, most recently processed last
    \* ---- ProtocolFile.files() (protocol.py:136-194)
    xstore,         \* self._store of the record: field -> value
    xlazy,          \* self.lazy of the record: key -> loader
    xpc,            \* where the generator stands
    xi,             \* how many records the zip loop has produced
    xout,           \* history: the records yielded so far
    xerr,           \* history: the exception the generator raised
    \* ---- create_protocol, subset_iter (custom.py:195-327, 401-531) and
    \*      the subset methods of a protocol (speaker_diarization.py:59-91)
    sentries,       \* protocol_entries: subset -> its entries
    sreg,           \* create_protocol has made the class
    smethods,       \* the subsets that have a "{subset}_iter" method
    gen,            \* generators: what each iterates and where it stands
    gout,           \* history: the records each generator yielded, as yielded
    invoked,        \* history: <<generator, record, key>> whose loader ran
    readBy,         \* history: <<generator, record, key>> the caller read
    \* ---- subset_trial (custom.py:329-385)
    tentries,       \* the entries of the subset
    trials,         \* the rows of the trial table: uri1, uri2, reference
    tpc,            \* where the generator stands
    trow,           \* how many rows the loop has gone through
    tfiles,         \* files: uri -> the cached instance (0: none)
    tinst,          \* history: every ProtocolFile made, in order of creation
    tout,           \* history: the tuples yielded so far
    terr,           \* history: the exception the generator raised
    \* ---- FileFinder.__call__ (file_finder.py:63-135)
    fsources,       \* registry.sources: database -> its path template(s)
    fdisk,          \* the files that exist: <<directory, uri>>
    looked,         \* history: the lookups made, with their outcome
    \* ---- _load_protocols, _merge_protocols_inplace (registry.py:338-388,
    \*      454-513) for one database
    inDatabases,    \* db_name in self.databases
    registered,     \* self.databases[db_name]._protocols: a dict
    loads,          \* how many times _load_protocols was called
    previous,       \* history: `registered` when the last call started
    declared,       \* history: the dict `protocols` the last call built
    mergeMode,      \* history: the mode of the last call
    warnings,       \* history: the keys the last call warned about
    mergeOutcome,   \* history: how the last call ended
    \* ---- nested meta_subset_iter generators and the registries
    \*      (custom.py:157-192, registry.py:301-328, 517)
    singleton,      \* the protocols of `registry`: name -> definition
    other,          \* the protocols of another Registry instance
    nloaded,        \* a load has been made after the construction
    npc,            \* where the iteration of a meta-subset stands
    nstart,         \* the meta-protocol that is iterated
    nstack,         \* the nested generators: name, entries, position
    nout,           \* history: the files yielded by the iteration
    nchanged,       \* history: a load was made during the iteration
    \* ---- ProtocolFile with threads (protocol.py:61-134)
    rstore,         \* self._store of each record: key -> value
    rlazy,          \* the keys of self.lazy of each record
    reval,          \* self.evaluating_ of each record: key -> count
    owner,          \* the thread that holds self.lock_ of each record
    depth,          \* how many times that thread has acquired it
    th,             \* each thread: the operation it is in, and where
    it,             \* each thread: its keys() iteration, if any
    rruns,          \* history: how many times each loader was called
    rmoved,         \* history: how many times each key was moved
    got,            \* history: the values that the gets of a record returned
    tops            \* how many calls the threads have made

recVars == <<store, lazy, evaluating, calls, last, lastGot, cancelled>>

filesVars == <<progress, progess, savedProgress, fpc, fidx, fcount, first_file,
               yielded_uris, yieldedFiles, firstOffered, methodUris, dropped>>

metaVars == <<subset_entries, subset_files, mpc, mp, ms, mf, metaFiles>>

regVars == <<yml, configs, sources, databases, rpc, stack, loading, call,
             outcome, events, dbBefore, cfgBefore, lastLoaded>>

expVars == <<xstore, xlazy, xpc, xi, xout, xerr>>

subVars == <<sentries, sreg, smethods, gen, gout, invoked, readBy>>

triVars == <<tentries, trials, tpc, trow, tfiles, tinst, tout, terr>>

findVars == <<fsources, fdisk, looked>>

mergeVars == <<inDatabases, registered, loads, previous, declared, mergeMode,
               warnings, mergeOutcome>>

nestVars == <<singleton, other, nloaded, npc, nstart, nstack, nout, nchanged>>

thrVars ==
    <<rstore, rlazy, reval, owner, depth, th, it, rruns, rmoved, got, tops>>

lateVars == <<nestVars, thrVars>>

moreVars == <<expVars, subVars, triVars, findVars, mergeVars, lateVars>>

oldVars == <<recVars, filesVars, metaVars, regVars>>

vars == <<recVars, filesVars, metaVars, regVars, moreVars>>

(***************************************************************************)
(* Python dicts keep insertion order: a dict is a sequence of <<key,       *)
(* value>> pairs with distinct keys.                                       *)
(***************************************************************************)
DictKeys(d) == [i \in 1..Len(d) |-> d[i][1]]

DictHas(d, k) == \E i \in 1..Len(d) : d[i][1] = k

DictGet(d, k) == d[CHOOSE i \in 1..Len(d) : d[i][1] = k][2]

\* d[k] = v : an existing key keeps its position, a new key goes last
DictSet(d, k, v) ==
    IF DictHas(d, k)
    THEN [i \in 1..Len(d) |-> IF d[i][1] = k THEN <<k, v>> ELSE d[i]]
    ELSE Append(d, <<k, v>>)

\* del d[k] (the caller checks that k is present)
DictDel(d, k) == SelectSeq(d, LAMBDA e : e[1] # k)

Range(s) == {s[i] : i \in 1..Len(s)}

\* all dicts with keys in K and values in V
DictsOver(K, V) ==
    {d \in UNION {[1..n -> K \X V] : n \in 0..Cardinality(K)} :
        \A i, j \in 1..Len(d) : i # j => d[i][1] # d[j][1]}

(***************************************************************************)
(* ProtocolFile                                                            *)
(***************************************************************************)
Keys == {"uri", "annotation"}

NumValues == 2

Values == 0..(NumValues - 1)

MaxDeps == 1

\* stands for "no value" where a value is expected (outside Values)
None == 0 - 1

NoKey == "-"

\* A loader is a callable taking the record.  It reads the keys `deps` of
\* the record, in order, with record[key], and then either raises or
\* returns a value computed from what it read.
Loaders ==
    [deps : UNION {[1..n -> Keys] : n \in 0..MaxDeps}, raises : BOOLEAN]

SumSeq(s) == IF Len(s) = 0 THEN 0 ELSE
    LET F[i \in 0..Len(s)] == IF i = 0 THEN 0 ELSE F[i - 1] + s[i] IN F[Len(s)]

LoaderValue(read) == (1 + SumSeq(read)) % NumValues

\* the part of the record that __getitem__ reads and writes
RecState(s, l, e, c) == [store |-> s, lazy |-> l, evaluating |-> e, calls |-> c]

Outcome(st, status, value) == [st |-> st, status |-> status, value |-> value]

\* protocol.py:84  self.evaluating_.update([key])
MarkEvaluating(ev, key) == [ev EXCEPT ![key] = @ + 1]

\* protocol.py:100  self.evaluating_.subtract([key])
UnmarkEvaluating(ev, key) == [ev EXCEPT ![key] = @ - 1]

\* (mutation of MustEvaluate: a key of _store is never evaluated)
MustEvaluate_eagerFirst(st, key) ==
    DictHas(st.lazy, key) /\ st.evaluating[key] = 0 /\ ~DictHas(st.store, key)

\* (mutation of MustEvaluate: a key being evaluated is evaluated once more)
MustEvaluate_twice(st, key) == DictHas(st.lazy, key) /\ st.evaluating[key] <= 1

\* protocol.py:81  key in self.lazy and self.evaluating_[key] == 0
MustEvaluate(st, key) == DictHas(st.lazy, key) /\ st.evaluating[key] = 0

\* (mutation of LazyAfterEvaluation: the loader is left in place)
LazyAfterEvaluation_kept(l, key) == l

\* protocol.py:88  del self.lazy[key]
LazyAfterEvaluation(l, key) == DictDel(l, key)

\* (mutation of LoaderRaised: the guard is lowered, as a finally would)
LoaderRaised_lowered(st, key) ==
    [st EXCEPT !.evaluating = UnmarkEvaluating(@, key)]

\* protocol.py:87-100  an exception of the loader leaves __getitem__ at
\* line 87: lines 88-100 are skipped, and nothing is undone
LoaderRaised(st, key) == st

RECURSIVE GetItem(_, _)
RECURSIVE RunLoader(_, _, _, _)

\* protocol.py:87  self.lazy[key](self): the loader reads its dependencies
\* through record[dep] (nested __getitem__), then raises or returns.
\* An exception raised by a nested read propagates through the loader.
RunLoader(st, loader, i, read) ==
    IF i > Len(loader.deps)
    THEN IF loader.raises
         THEN Outcome(st, "LoaderError", None)
         ELSE Outcome(st, "ok", LoaderValue(read))
    ELSE LET r == GetItem(st, loader.deps[i])
         IN  IF r.status # "ok"
             THEN Outcome(r.st, r.status, None)
             ELSE RunLoader(r.st, loader, i + 1, Append(read, r.value))

\* protocol.py:78-102  ProtocolFile.__getitem__
GetItem(st, key) ==
    IF MustEvaluate(st, key)
    THEN LET st1 == [st EXCEPT !.evaluating = MarkEvaluating(@, key),
                               !.calls[key] = @ + 1]
             r   == RunLoader(st1, DictGet(st.lazy, key), 1, <<>>)
         IN  IF r.status # "ok"
             THEN Outcome(LoaderRaised(r.st, key), r.status, None)
             ELSE LET st2 == [r.st EXCEPT
                                !.lazy = LazyAfterEvaluation(@, key),
                                !.store = DictSet(@, key, r.value),
                                !.evaluating = UnmarkEvaluating(@, key)]
                  IN  Outcome(st2, "ok", DictGet(st2.store, key))
    ELSE IF DictHas(st.store, key)
         THEN Outcome(st, "ok", DictGet(st.store, key))
         ELSE Outcome(st, "KeyError", None)

\* (mutation of DropLoader: the pending loader survives)
DropLoader_kept(l, key) == l

\* protocol.py:107-108  if key in self.lazy: del self.lazy[key]
DropLoader(l, key) == IF DictHas(l, key) THEN DictDel(l, key) ELSE l

\* (mutation of IterKeys: the keys of lazy are not filtered)
IterKeys_unfiltered(s, l) == DictKeys(s) \o DictKeys(l)

\* protocol.py:120-129  ProtocolFile.__iter__
IterKeys(s, l) ==
    DictKeys(s) \o SelectSeq(DictKeys(l), LAMBDA k : ~DictHas(s, k))

\* protocol.py:131-134  ProtocolFile.__len__
RecLen(s, l) == Cardinality(Range(DictKeys(s)) \cup Range(DictKeys(l)))

\* history record of one caller-issued operation: what was asked, how it
\* ended, the value returned (out) or the keys / snapshot returned (seq),
\* the value the previous get of the key returned (prev), whether a loader
\* ran during the operation, and the operation issued just before it
Op(op, key, val, status, out, seq, prev, ran) ==
    [op |-> op, key |-> key, val |-> val, status |-> status, out |-> out,
     seq |-> seq, prev |-> prev, ran |-> ran,
     before |-> [op |-> last.op, key |-> last.key, val |-> last.val]]

\* record[key]
Get(key) ==
    LET r == GetItem(RecState(store, lazy, evaluating, calls), key) IN
    /\ store' = r.st.store
    /\ lazy' = r.st.lazy
    /\ evaluating' = r.st.evaluating
    /\ calls' = r.st.calls
    /\ last' = Op("get", key, None, r.status, r.value, <<>>, lastGot[key],
                  r.st.calls # calls)
    /\ lastGot' = IF r.status = "ok" THEN [lastGot EXCEPT ![key] = r.value]
                  ELSE lastGot
    /\ UNCHANGED cancelled

\* record[key] = value   (protocol.py:104-110)
Set(key, value) ==
    /\ lazy' = DropLoader(lazy, key)
    /\ store' = DictSet(store, key, value)
    /\ last' = Op("set", key, value, "ok", None, <<>>, None, FALSE)
    /\ lastGot' = [lastGot EXCEPT ![key] = None]
    /\ cancelled' = IF DictHas(lazy, key)
                    THEN [cancelled EXCEPT ![key] = calls[key]]
                    ELSE cancelled
    /\ UNCHANGED <<evaluating, calls>>

\* del record[key]   (protocol.py:112-118)
\* the loader is dropped before `del self._store[key]` can raise KeyError
Delete(key) ==
    /\ lazy' = DropLoader(lazy, key)
    /\ store' = IF DictHas(store, key) THEN DictDel(store, key) ELSE store
    /\ last' = Op("delete", key, None,
                  IF DictHas(store, key) THEN "ok" ELSE "KeyError",
                  None, <<>>, None, FALSE)
    /\ lastGot' = [lastGot EXCEPT ![key] = None]
    /\ UNCHANGED <<evaluating, calls, cancelled>>

\* list(record) and len(record)
IterAll ==
    /\ last' = Op("keys", NoKey, None, "ok", RecLen(store, lazy),
                  IterKeys(store, lazy), None, FALSE)
    /\ UNCHANGED <<store, lazy, evaluating, calls, lastGot, cancelled>>

\* abs(record)   (protocol.py:74-76)
Snapshot ==
    /\ last' = Op("snapshot", NoKey, None, "ok", None, store, None, FALSE)
    /\ UNCHANGED <<store, lazy, evaluating, calls, lastGot, cancelled>>

NoPath == "-"

\* the registry of a process that loads no configuration
RegIdle ==
    /\ yml = <<>>
    /\ configs = <<>>
    /\ sources = <<>>
    /\ databases = <<>>
    /\ rpc = "idle"
    /\ stack = <<>>
    /\ loading = {}
    /\ call = [path |-> NoPath, mode |-> "OVERRIDE"]
    /\ outcome = "none"
    /\ events = <<>>
    /\ dbBefore = <<>>
    /\ cfgBefore = <<>>
    /\ lastLoaded = <<>>

MetaIdle ==
    /\ subset_entries = <<>>
    /\ subset_files = <<>>
    /\ mpc = "idle"
    /\ mp = 0
    /\ ms = 0
    /\ mf = 0
    /\ metaFiles = <<>>

\* the "database" entry is absent
NoDatabase == "<none>"

\* no file
NoFile == [kind |-> "none", database |-> NoDatabase, uris |-> <<>>,
           channel |-> None]

FilesIdle ==
    /\ progress = FALSE
    /\ progess = [set |-> FALSE, value |-> FALSE]
    /\ savedProgress = FALSE
    /\ fpc = "idle"
    /\ fidx = 0
    /\ fcount = 0
    /\ first_file = NoFile
    /\ yielded_uris = {}
    /\ yieldedFiles = <<>>
    /\ firstOffered = <<>>
    /\ methodUris = {}
    /\ dropped = {}

\* no record is being expanded
ExpIdle ==
    /\ xstore = <<>>
    /\ xlazy = <<>>
    /\ xpc = "idle"
    /\ xi = 0
    /\ xout = <<>>
    /\ xerr = ""

\* no protocol class is made or iterated
SubIdle ==
    /\ sentries = <<>>
    /\ sreg = FALSE
    /\ smethods = {}
    /\ gen = <<>>
    /\ gout = <<>>
    /\ invoked = {}
    /\ readBy = {}

\* no trial is iterated
TriIdle ==
    /\ tentries = <<>>
    /\ trials = <<>>
    /\ tpc = "idle"
    /\ trow = 0
    /\ tfiles = <<>>
    /\ tinst = <<>>
    /\ tout = <<>>
    /\ terr = ""

\* no file is looked for
FindIdle ==
    /\ fsources = <<>>
    /\ fdisk = {}
    /\ looked = <<>>

\* no protocol is merged
MergeIdle ==
    /\ inDatabases = FALSE
    /\ registered = <<>>
    /\ loads = 0
    /\ previous = <<>>
    /\ declared = <<>>
    /\ mergeMode = ""
    /\ warnings = <<>>
    /\ mergeOutcome = ""

\* no meta-subset is iterated
NestIdle ==
    /\ singleton = <<>>
    /\ other = <<>>
    /\ nloaded = FALSE
    /\ npc = "idle"
    /\ nstart = ""
    /\ nstack = <<>>
    /\ nout = <<>>
    /\ nchanged = FALSE

\* no thread uses a record
ThrIdle ==
    /\ rstore = <<>>
    /\ rlazy = <<>>
    /\ reval = <<>>
    /\ owner = <<>>
    /\ depth = <<>>
    /\ th = <<>>
    /\ it = <<>>
    /\ rruns = <<>>
    /\ rmoved = <<>>
    /\ got = <<>>
    /\ tops = 0

LateIdle == NestIdle /\ ThrIdle

MoreIdle ==
    ExpIdle /\ SubIdle /\ TriIdle /\ FindIdle /\ MergeIdle /\ LateIdle

RecIdle ==
    /\ store = <<>>
    /\ lazy = <<>>
    /\ evaluating = [k \in Keys |-> 0]
    /\ calls = [k \in Keys |-> 0]
    /\ last = [op |-> "init", key |-> NoKey, val |-> None, status |-> "ok",
               out |-> None, seq |-> <<>>, prev |-> None, ran |-> FALSE,
               before |-> [op |-> "init", key |-> NoKey, val |-> None]]
    /\ lastGot = [k \in Keys |-> None]
    /\ cancelled = [k \in Keys |-> None]

\* ProtocolFile.__init__ (protocol.py:61-72): any precomputed dict and any
\* lazy dict; a key may be in both (Protocol.preprocess, protocol.py:236).
InitRec ==
    /\ MoreIdle
    /\ FilesIdle
    /\ MetaIdle
    /\ RegIdle
    /\ store \in DictsOver(Keys, Values)
    /\ lazy \in DictsOver(Keys, Loaders)
    /\ evaluating = [k \in Keys |-> 0]
    /\ calls = [k \in Keys |-> 0]
    /\ last = [op |-> "init", key |-> NoKey, val |-> None, status |-> "ok",
               out |-> None, seq |-> <<>>, prev |-> None, ran |-> FALSE,
               before |-> [op |-> "init", key |-> NoKey, val |-> None]]
    /\ lastGot = [k \in Keys |-> None]
    /\ cancelled = [k \in Keys |-> None]

NextRec ==
    \/ \E k \in Keys : Get(k) /\ UNCHANGED <<filesVars, metaVars, regVars, moreVars>>
    \/ \E k \in Keys, v \in Values : Set(k, v) /\ UNCHANGED <<filesVars, metaVars, regVars, moreVars>>
    \/ \E k \in Keys : Delete(k) /\ UNCHANGED <<filesVars, metaVars, regVars, moreVars>>
    \/ IterAll /\ UNCHANGED <<filesVars, metaVars, regVars, moreVars>>
    \/ Snapshot /\ UNCHANGED <<filesVars, metaVars, regVars, moreVars>>

SpecRec == InitRec /\ [][NextRec]_vars

(***************************************************************************)
(* Claims about ProtocolFile, checked under SpecRec                        *)
(***************************************************************************)

\* C1: over any sequence of get/set/delete/keys/snapshot operations the
\* loader of a key is invoked at most once, and a get(k) that follows an
\* earlier successful get(k) with no set or delete of k in between returns
\* the value the earlier one returned.
C1_AtMostOnceAndIdempotent ==
    /\ \A k \in Keys : calls[k] <= 1
    /\ (last.op = "get" /\ last.status = "ok" /\ last.prev # None)
          => last.out = last.prev

\* a second get(k) has returned, after the first one ran k's loader
C1_Witness ==
    /\ last.op = "get" /\ last.status = "ok" /\ last.prev # None
    /\ calls[last.key] = 1
    /\ ~last.ran

\* C10: set(k, v) directly followed by get(k) returns v and runs no loader,
\* whether k was absent, eager or pending; the loader that a set removed
\* is never run afterwards.
C10_SetThenGet ==
    /\ (last.op = "get" /\ last.before.op = "set" /\ last.before.key = last.key)
          => (last.status = "ok" /\ last.out = last.before.val /\ ~last.ran)
    /\ \A k \in Keys :
          cancelled[k] # None => (calls[k] = cancelled[k] /\ ~DictHas(lazy, k))

\* get(k) has returned right after a set(k, v) that removed k's pending loader
C10_Witness ==
    /\ last.op = "get" /\ last.before.op = "set" /\ last.before.key = last.key
    /\ cancelled[last.key] = 0

(***************************************************************************)
(* Protocol.files(): the unified iteration over every subset method        *)
(***************************************************************************)
MaxLen == 2

Uris == {"a", "a_1"}

Channels == {None, 1}

\* A file as a subset method yields it, reduced to what files() reads:
\* kind "scalar" (uri is a string, uris = <<uri>>), "list" (uri is a list of
\* strings) or "nouri" (no "uri" entry: a trial with file1 / file2).
ScalarFiles ==
    [kind : {"scalar"}, database : {"db"},
     uris : {<<u>> : u \in Uris}, channel : Channels]
    \cup [kind : {"scalar"}, database : {NoDatabase},
          uris : {<<"a">>}, channel : {None}]

ListFiles ==
    [kind : {"list"}, database : {"db"},
     uris : {<<"a", "a_1">>, <<"a", "a">>}, channel : {None}]

TrialFiles ==
    [kind : {"nouri"}, database : {"db"}, uris : {<<>>}, channel : {None}]

SubsetFiles == ScalarFiles \cup ListFiles \cup TrialFiles

\* protocol.py:251-254
Suffixes == <<"", "_enrolment", "_trial">>

Subsets == <<"development", "test", "train">>

Methods ==
    [i \in 1..(Len(Suffixes) * Len(Subsets)) |->
        Subsets[((i - 1) % Len(Subsets)) + 1]
            \o Suffixes[((i - 1) \div Len(Subsets)) + 1]]

\* (mutation of get_unique_identifier: the channel is left out)
get_unique_identifier_nochannel(item) ==
    (IF item.database # NoDatabase THEN item.database \o "/" ELSE "")
        \o item.uris[1]

\* util.py:328-357  "{database}/{uri}_{channel:d}"
get_unique_identifier(item) ==
    (IF item.database # NoDatabase THEN item.database \o "/" ELSE "")
        \o item.uris[1]
        \o (IF item.channel # None THEN "_" \o ToString(item.channel) ELSE "")

\* protocol.py:136-194  ProtocolFile.files(): a file whose uri is a list
\* stands for one file per element, the scalar fields repeated
ExpandFile(f) ==
    IF f.kind = "scalar" THEN <<f>>
    ELSE [i \in 1..Len(f.uris) |->
            [kind |-> "scalar", database |-> f.database,
             uris |-> <<f.uris[i]>>, channel |-> f.channel]]

\* (mutation of AlreadyYielded: nothing is remembered)
AlreadyYielded_never(uri, seen) == FALSE

\* protocol.py:288  uri in yielded_uris
AlreadyYielded(uri, seen) == uri \in seen

\* protocol.py:284-293  the loop over current_file.files(): what it yields
\* and what it adds to yielded_uris
RECURSIVE YieldLoop(_, _, _, _)
YieldLoop(fs, i, seen, out) ==
    IF i > Len(fs) THEN [seen |-> seen, out |-> out]
    ELSE LET uri == get_unique_identifier(fs[i]) IN
         IF AlreadyYielded(uri, seen)
         THEN YieldLoop(fs, i + 1, seen, out)
         ELSE YieldLoop(fs, i + 1, seen \cup {uri}, Append(out, fs[i]))

\* the identity key of a file as the documentation of files() states it:
\* the string database/uri, or database/uri_channel when the file has a
\* channel (the uri alone stands for database/uri when the file names no
\* database).  Two files whose strings coincide have the same identity key,
\* e.g. uri "a_1" without channel and uri "a" with channel 1.
IdentityKey(f) ==
    LET base == IF f.database = NoDatabase THEN f.uris[1]
                ELSE f.database \o "/" \o f.uris[1]
    IN  IF f.channel = None THEN base
        ELSE base \o "_" \o ToString(f.channel)

\* history: the first file offered for each identity key, in order
RECURSIVE OfferLoop(_, _, _)
OfferLoop(fs, i, out) ==
    IF i > Len(fs) THEN out
    ELSE IF \E j \in 1..Len(out) : IdentityKey(out[j]) = IdentityKey(fs[i])
         THEN OfferLoop(fs, i + 1, out)
         ELSE OfferLoop(fs, i + 1, Append(out, fs[i]))

\* history: which of the files fs the loop drops, by where the file kept
\* came from
DroppedKinds(fs, seen, mine) ==
    {IF IdentityKey(fs[i]) \in seen \ mine THEN "other" ELSE "same" :
        i \in {i \in 1..Len(fs) :
                  \/ IdentityKey(fs[i]) \in seen
                  \/ \E j \in 1..(i - 1) :
                        IdentityKey(fs[j]) = IdentityKey(fs[i])}}

\* protocol.py:248-256  first call of next() on the generator
FilesStart ==
    /\ fpc = "start"
    /\ savedProgress' = progress
    /\ yielded_uris' = {}
    /\ fidx' = 1
    /\ fpc' = "probe"
    /\ UNCHANGED <<progress, progess, fcount, first_file, yieldedFiles,
                   firstOffered, methodUris, dropped>>

NextMethod ==
    /\ methodUris' = {}
    /\ fidx' = fidx + 1
    /\ fpc' = "probe"
    /\ fcount' = 0
    /\ first_file' = NoFile

\* protocol.py:260-261  the protocol has no such method
MethodMissing ==
    /\ fpc = "probe" /\ fidx <= Len(Methods)
    /\ NextMethod
    /\ UNCHANGED <<progress, progess, savedProgress, yielded_uris,
                   yieldedFiles, firstOffered, dropped>>

\* protocol.py:263-270  the method raises NotImplementedError, or yields
\* nothing (StopIteration)
MethodSkipped ==
    /\ fpc = "probe" /\ fidx <= Len(Methods)
    /\ progress' = FALSE
    /\ NextMethod
    /\ UNCHANGED <<progess, savedProgress, yielded_uris, yieldedFiles,
                   firstOffered, dropped>>

\* protocol.py:263-273  the method yields a first file
MethodProbed(f) ==
    /\ fpc = "probe" /\ fidx <= Len(Methods)
    /\ progress' = TRUE
    /\ first_file' = f
    /\ fcount' = 0
    /\ fpc' = "drain"
    /\ UNCHANGED <<progess, savedProgress, fidx, yielded_uris, yieldedFiles,
                   firstOffered, methodUris, dropped>>

\* protocol.py:275-293  one file of the second call of the method (which
\* starts with the file the probe saw)
DrainFile(f) ==
    /\ fpc = "drain" /\ fcount < MaxLen
    /\ fcount = 0 => f = first_file
    /\ fcount' = fcount + 1
    /\ IF f.kind = "nouri"
       THEN UNCHANGED <<yielded_uris, yieldedFiles, firstOffered,
                        methodUris, dropped>>
       ELSE LET r == YieldLoop(ExpandFile(f), 1, yielded_uris, <<>>) IN
            /\ yielded_uris' = r.seen
            /\ yieldedFiles' = yieldedFiles \o r.out
            /\ firstOffered' = OfferLoop(ExpandFile(f), 1, firstOffered)
            /\ methodUris' = methodUris \cup (r.seen \ yielded_uris)
            /\ dropped' = dropped \cup
                           DroppedKinds(ExpandFile(f), yielded_uris, methodUris)
    /\ UNCHANGED <<progress, progess, savedProgress, fpc, fidx, first_file>>

\* the method's generator is exhausted
DrainEnd ==
    /\ fpc = "drain" /\ fcount >= 1
    /\ NextMethod
    /\ UNCHANGED <<progress, progess, savedProgress, yielded_uris,
                   yieldedFiles, firstOffered, dropped>>

\* protocol.py:295-296  self.progess = progress
FilesFinish ==
    /\ fpc = "probe" /\ fidx > Len(Methods)
    /\ progess' = [set |-> TRUE, value |-> savedProgress]
    /\ fpc' = "done"
    /\ UNCHANGED <<progress, savedProgress, fidx, fcount, first_file,
                   yielded_uris, yieldedFiles, firstOffered, methodUris,
                   dropped>>

\* Protocol.__init__ (protocol.py:234) then a call of files()
InitFiles ==
    /\ MoreIdle
    /\ RecIdle
    /\ MetaIdle
    /\ RegIdle
    /\ progress \in BOOLEAN
    /\ progess = [set |-> FALSE, value |-> FALSE]
    /\ savedProgress = FALSE
    /\ fpc = "start"
    /\ fidx = 0
    /\ fcount = 0
    /\ first_file = NoFile
    /\ yielded_uris = {}
    /\ yieldedFiles = <<>>
    /\ firstOffered = <<>>
    /\ methodUris = {}
    /\ dropped = {}

NextFiles ==
    \/ FilesStart /\ UNCHANGED <<recVars, metaVars, regVars, moreVars>>
    \/ MethodMissing /\ UNCHANGED <<recVars, metaVars, regVars, moreVars>>
    \/ MethodSkipped /\ UNCHANGED <<recVars, metaVars, regVars, moreVars>>
    \/ \E f \in SubsetFiles : MethodProbed(f) /\ UNCHANGED <<recVars, metaVars, regVars, moreVars>>
    \/ \E f \in SubsetFiles : DrainFile(f) /\ UNCHANGED <<recVars, metaVars, regVars, moreVars>>
    \/ DrainEnd /\ UNCHANGED <<recVars, metaVars, regVars, moreVars>>
    \/ FilesFinish /\ UNCHANGED <<recVars, metaVars, regVars, moreVars>>

SpecFiles == InitFiles /\ [][NextFiles]_vars

(***************************************************************************)
(* Claims about Protocol.files(), checked under SpecFiles                  *)
(***************************************************************************)

\* C2: whatever the subset methods yield, files() yields at most one record
\* per identity key, and the records it yields are the first occurrence of
\* each identity key in the order the methods are visited: later duplicates
\* are dropped.
C2_FilesDeduplicates ==
    /\ \A i, j \in 1..Len(yieldedFiles) :
          IdentityKey(yieldedFiles[i]) = IdentityKey(yieldedFiles[j]) => i = j
    /\ yieldedFiles = firstOffered

\* files() has completed after dropping a file that an earlier method had
\* yielded and a file that the same method had yielded
C2_Witness ==
    /\ fpc = "done"
    /\ Len(yieldedFiles) >= 2
    /\ dropped = {"same", "other"}

(***************************************************************************)
(* meta_subset_iter: one subset of a protocol of the meta-database X       *)
(***************************************************************************)
MaxSubsetLen == 1

\* files that the subsets of ordinary protocols yield
FileIds == {"f1", "f2"}

\* protocols that the registry singleton resolves, each with the subsets
\* whose {subset}_iter it implements
RegisteredSubsets ==
    [p \in {"A.SpeakerDiarization.P1", "B.SpeakerDiarization.P2"} |->
        IF p = "A.SpeakerDiarization.P1" THEN {"train"}
        ELSE {"train", "development"}]

Registered == DOMAIN RegisteredSubsets

\* "C.SpeakerDiarization.P3" is referenced but not registered
Referable == Registered \cup {"C.SpeakerDiarization.P3"}

SubsetLists(p) ==
    IF p = "B.SpeakerDiarization.P2"
    THEN {<<"train">>, <<"development">>, <<"train", "development">>,
          <<"development", "train">>}
    ELSE {<<"train">>}

\* the entries of one meta-subset, as YAML gives them
MetaEntries ==
    {d \in UNION {[1..n -> UNION {{<<p, l>> : l \in SubsetLists(p)} :
                                    p \in Referable}] :
                    n \in 0..Cardinality(Referable)} :
        \A i, j \in 1..Len(d) : i # j => d[i][1] # d[j][1]}

SubsetContents ==
    [{<<p, sub>> \in Registered \X {"train", "development"} :
        sub \in RegisteredSubsets[p]}
      -> UNION {[1..n -> FileIds] : n \in 0..MaxSubsetLen}]

\* (mutation of SubsetAt: the subsets of a protocol are visited last first)
SubsetAt_reversed(subsets, i) == subsets[Len(subsets) + 1 - i]

\* custom.py:189  for subset in subsets
SubsetAt(subsets, i) == subsets[i]

\* custom.py:190-191  getattr(partial_protocol, f"{subset}_iter")()
CurrentSubsetFiles ==
    subset_files[<<subset_entries[mp][1], SubsetAt(subset_entries[mp][2], ms)>>]

\* custom.py:187  every protocol has been visited: the generator returns
MetaReturn ==
    /\ mpc = "protocol" /\ mp > Len(subset_entries)
    /\ mpc' = "done"
    /\ UNCHANGED <<subset_entries, subset_files, mp, ms, mf, metaFiles>>

\* custom.py:188  registry.get_protocol(protocol) finds the protocol
MetaResolve ==
    /\ mpc = "protocol" /\ mp <= Len(subset_entries)
    /\ subset_entries[mp][1] \in Registered
    /\ ms' = 1
    /\ mpc' = "subset"
    /\ UNCHANGED <<subset_entries, subset_files, mp, mf, metaFiles>>

\* custom.py:188  registry.get_protocol(protocol) raises (registry.py:280-297)
MetaResolveFails ==
    /\ mpc = "protocol" /\ mp <= Len(subset_entries)
    /\ subset_entries[mp][1] \notin Registered
    /\ mpc' = "raised"
    /\ UNCHANGED <<subset_entries, subset_files, mp, ms, mf, metaFiles>>

\* custom.py:189-191  next subset of the protocol, or next protocol
MetaNextSubset ==
    /\ mpc = "subset"
    /\ IF ms > Len(subset_entries[mp][2])
       THEN /\ mp' = mp + 1
            /\ mpc' = "protocol"
            /\ UNCHANGED <<ms, mf>>
       ELSE /\ mf' = 0
            /\ mpc' = "file"
            /\ UNCHANGED <<mp, ms>>
    /\ UNCHANGED <<subset_entries, subset_files, metaFiles>>

\* custom.py:191-192  yield file
MetaYield ==
    /\ mpc = "file" /\ mf < Len(CurrentSubsetFiles)
    /\ metaFiles' = Append(metaFiles, CurrentSubsetFiles[mf + 1])
    /\ mf' = mf + 1
    /\ UNCHANGED <<subset_entries, subset_files, mpc, mp, ms>>

\* custom.py:191  the subset is exhausted
MetaSubsetEnd ==
    /\ mpc = "file" /\ mf >= Len(CurrentSubsetFiles)
    /\ ms' = ms + 1
    /\ mpc' = "subset"
    /\ UNCHANGED <<subset_entries, subset_files, mp, mf, metaFiles>>

\* a meta-subset of X (custom.py:490-499) and the first next() on it
InitMeta ==
    /\ MoreIdle
    /\ RecIdle
    /\ FilesIdle
    /\ RegIdle
    /\ subset_entries \in MetaEntries
    /\ subset_files \in SubsetContents
    /\ mpc = "protocol"
    /\ mp = 1
    /\ ms = 0
    /\ mf = 0
    /\ metaFiles = <<>>

NextMeta ==
    \/ MetaReturn /\ UNCHANGED <<recVars, filesVars, regVars, moreVars>>
    \/ MetaResolve /\ UNCHANGED <<recVars, filesVars, regVars, moreVars>>
    \/ MetaResolveFails /\ UNCHANGED <<recVars, filesVars, regVars, moreVars>>
    \/ MetaNextSubset /\ UNCHANGED <<recVars, filesVars, regVars, moreVars>>
    \/ MetaYield /\ UNCHANGED <<recVars, filesVars, regVars, moreVars>>
    \/ MetaSubsetEnd /\ UNCHANGED <<recVars, filesVars, regVars, moreVars>>

SpecMeta == InitMeta /\ [][NextMeta]_vars

(***************************************************************************)
(* Claims about meta_subset_iter, checked under SpecMeta                   *)
(***************************************************************************)

\* the (protocol, subset) pairs a meta-subset references: protocols in
\* declaration order, and the subsets of a protocol in listed order
RECURSIVE ReferencedPairs(_)
ReferencedPairs(entries) ==
    IF entries = <<>> THEN <<>>
    ELSE [i \in 1..Len(Head(entries)[2]) |->
            <<Head(entries)[1], Head(entries)[2][i]>>]
         \o ReferencedPairs(Tail(entries))

RECURSIVE Concatenation(_)
Concatenation(pairs) ==
    IF pairs = <<>> THEN <<>>
    ELSE subset_files[Head(pairs)] \o Concatenation(Tail(pairs))

IsPrefix(a, b) == Len(a) <= Len(b) /\ a = SubSeq(b, 1, Len(a))

\* C5: a meta-subset whose referenced protocols are all registered yields
\* the concatenation of the file sequences of the referenced (protocol,
\* subset) pairs, protocols in declaration order and subsets in listed
\* order, nothing removed: the files yielded so far are always a prefix of
\* it and, when the iteration completes, all of it.
C5_MetaConcatenation ==
    (\A i \in 1..Len(subset_entries) : subset_entries[i][1] \in Registered)
      => /\ IsPrefix(metaFiles, Concatenation(ReferencedPairs(subset_entries)))
         /\ mpc = "done" =>
              metaFiles = Concatenation(ReferencedPairs(subset_entries))

\* the iteration of a meta-subset over two protocols, one with two subsets,
\* has completed and has yielded the same file twice
C5_Witness ==
    /\ mpc = "done"
    /\ Len(subset_entries) = 2
    /\ \E i \in 1..2 : Len(subset_entries[i][2]) = 2
    /\ \E i, j \in 1..Len(metaFiles) : i # j /\ metaFiles[i] = metaFiles[j]

(***************************************************************************)
(* Registry: load_database, _load_database_helper, _load_protocols,        *)
(* _merge_protocols_inplace, _reload_meta_protocols, get_protocol          *)
(***************************************************************************)
MaxReqs == 1

\* the YAML files that exist
Paths == {"A", "B"}

\* a path that a "Requirements" list names although no such file exists
MissingPath == "M"

\* registry.py:44-47  LoadingMode
Modes == {"OVERRIDE", "KEEP", "ERROR"}

MetaDB == "X"

OrdinaryDBs == {"D"}

DBs == OrdinaryDBs \cup {MetaDB}

\* custom.py:424-435  tasks for which protocol_module has a base class
SupportedTasks == {"SpeakerDiarization"}

\* (task, protocol) pairs that a file may declare for a database
ProtocolKeys == {<<"SpeakerDiarization", "P">>, <<"Unknown", "P">>}

\* the "Protocols" section that a file may have for a database: the set of
\* (task, protocol) pairs it declares, empty when it has no such section
Sections(db) ==
    IF db = MetaDB
    THEN {{}, {<<"SpeakerDiarization", "P">>}, ProtocolKeys}
    ELSE {{}, {<<"SpeakerDiarization", "P">>}}

\* the parsed content of a file: "Requirements" (a list of paths),
\* "Protocols" and "Databases" (the databases it gives path templates for;
\* here a file gives the templates of the ordinary databases it declares)
YmlContents ==
    {c \in [Requirements : UNION {[1..n -> Paths \cup {MissingPath}] :
                                    n \in 0..MaxReqs},
            Protocols : [DBs -> SUBSET ProtocolKeys],
            Databases : SUBSET OrdinaryDBs] :
        /\ \A db \in DBs : c.Protocols[db] \in Sections(db)
        /\ c.Databases = {db \in OrdinaryDBs : c.Protocols[db] # {}}}

NoProtocols == [k \in ProtocolKeys |-> NoPath]

NoDatabases == [db \in DBs |-> [exists |-> FALSE, protocols |-> NoProtocols]]

\* custom.py:401-435  create_protocol: the class made from the entries of
\* file `path` (named by that path), or None for a task without base class
create_protocol(key, path) ==
    IF key[1] \in SupportedTasks THEN path ELSE NoPath

\* registry.py:359-371  the dict `protocols` built from the entries
NewProtocols(keys, path) ==
    [k \in ProtocolKeys |->
        IF k \in keys THEN create_protocol(k, path) ELSE NoPath]

\* (mutation of MustRaise: no mode raises)
MustRaise_never(mode) == FALSE

\* registry.py:492  mode == LoadingMode.ERROR
MustRaise(mode) == mode = "ERROR"

\* (mutation of Redefined: the old protocol is kept in every mode)
Redefined_keep(mode, new_p, old_p) == old_p

\* registry.py:497-509  a protocol that is redefined: OVERRIDE keeps the new
\* one, KEEP puts the old one back
Redefined(mode, new_p, old_p) == IF mode = "KEEP" THEN old_p ELSE new_p

\* registry.py:454-513  _merge_protocols_inplace
merge_protocols(new_protocols, old_protocols, mode) ==
    LET redefined == {k \in ProtocolKeys :
                        old_protocols[k] # NoPath /\ new_protocols[k] # NoPath}
    IN  [raised |-> redefined # {} /\ MustRaise(mode),
         warned |-> redefined # {} /\ ~MustRaise(mode),
         protocols |->
            [k \in ProtocolKeys |->
                IF old_protocols[k] = NoPath THEN new_protocols[k]
                ELSE IF k \in redefined
                     THEN Redefined(mode, new_protocols[k], old_protocols[k])
                     ELSE old_protocols[k]]]

\* registry.py:338-388  _load_protocols: the new self.databases, unless the
\* merge raises
load_protocols(dbs, db_name, keys, path, mode) ==
    LET protocols == NewProtocols(keys, path)
        m == IF dbs[db_name].exists
             THEN merge_protocols(protocols, dbs[db_name].protocols, mode)
             ELSE [raised |-> FALSE, warned |-> FALSE, protocols |-> protocols]
    IN  [raised |-> m.raised,
         warned |-> m.warned,
         databases |-> IF m.raised THEN dbs
                       ELSE [dbs EXCEPT ![db_name] =
                               [exists |-> TRUE, protocols |-> m.protocols]]]

\* registry.py:236-246  the databases whose protocols a file declares, in
\* the order the helper loads them: "X" last
ProtocolOrder(content) ==
    (IF content.Protocols["D"] # {} THEN <<"D">> ELSE <<>>)
        \o (IF content.Protocols[MetaDB] # {} THEN <<MetaDB>> ELSE <<>>)

\* (mutation of MetaConfigs: only the file loaded last is reloaded)
MetaConfigs_last(cfgs) == IF cfgs = <<>> THEN <<>> ELSE <<cfgs[Len(cfgs)]>>

\* registry.py:397-399  the loaded files that declare "X", in dict order
MetaConfigs(cfgs) ==
    SelectSeq(cfgs, LAMBDA path : yml[path].Protocols[MetaDB] # {})

\* (mutation of MetaMode: meta-protocols are reloaded in KEEP mode)
MetaMode_keep == "KEEP"

\* registry.py:401  mode=LoadingMode.OVERRIDE
MetaMode == "OVERRIDE"

\* registry.py:390-402  _reload_meta_protocols
RECURSIVE ReloadLoop(_, _, _)
ReloadLoop(dbs, cfgs, i) ==
    IF i > Len(cfgs) THEN dbs
    ELSE ReloadLoop(
            load_protocols(dbs, MetaDB, yml[cfgs[i]].Protocols[MetaDB],
                           cfgs[i], MetaMode).databases,
            cfgs, i + 1)

reload_meta_protocols(dbs, cfgs) ==
    ReloadLoop([dbs EXCEPT ![MetaDB] =
                    [exists |-> FALSE, protocols |-> NoProtocols]],
               MetaConfigs(cfgs), 1)

\* (mutation of AlreadyLoading: the `loading` set is not consulted)
AlreadyLoading_ignored(path, busy) == FALSE

\* registry.py:215  database_yml in loading
AlreadyLoading(path, busy) == path \in busy

\* (mutation of SourcesAfter: the templates of a database are set once)
SourcesAfter_first(srcs, path) ==
    [db \in OrdinaryDBs |->
        IF db \in yml[path].Databases /\ srcs[db] = NoPath THEN path
        ELSE srcs[db]]

\* registry.py:249-261  self.sources[db_name] = path_list for each database
\* of the "Databases" section: the templates of the file, resolved against
\* its directory, named here by the path of the file
SourcesAfter(srcs, path) ==
    [db \in OrdinaryDBs |->
        IF db \in yml[path].Databases THEN path ELSE srcs[db]]

\* (mutation of ConfigsAfter: the configuration is not saved)
ConfigsAfter_unsaved(cfgs, path) == cfgs

\* registry.py:264  self.configs[database_yml] = config: a path that is
\* already a key keeps its place
ConfigsAfter(cfgs, path) ==
    IF path \in Range(cfgs) THEN cfgs ELSE Append(cfgs, path)

\* registry.py:301-328 and database.py:82-88  get_protocol: the file whose
\* entries made the class that is instantiated
get_protocol(dbs, db_name, key) ==
    IF ~dbs[db_name].exists THEN "ValueError"
    ELSE IF dbs[db_name].protocols[key] = NoPath THEN "KeyError"
    ELSE dbs[db_name].protocols[key]

\* (mutation of RequirementsLoaded: protocols do not wait for requirements)
RequirementsLoaded_early(frame) == TRUE

\* registry.py:229-236  the loop over the requirements has ended
RequirementsLoaded(frame) ==
    frame.ri > Len(yml[frame.path].Requirements)

Event(e, path, db) == [e |-> e, path |-> path, db |-> db]

Frame(path) == [path |-> path, ri |-> 0, di |-> 1]

Top == stack[Len(stack)]

Pop == SubSeq(stack, 1, Len(stack) - 1)

\* the call returns to its caller, the last one to load_database
Return(rest) ==
    /\ stack' = rest
    /\ rpc' = IF rest = <<>> THEN "reload" ELSE "helper"

\* registry.py:169-190  load_database(path, mode) calls the helper
LoadDatabase(path, mode) ==
    /\ rpc = "idle"
    /\ rpc' = "helper"
    /\ call' = [path |-> path, mode |-> mode]
    /\ stack' = <<Frame(path)>>
    /\ loading' = {}
    /\ outcome' = "running"
    /\ events' = <<>>
    /\ dbBefore' = databases
    /\ cfgBefore' = configs
    /\ UNCHANGED <<yml, configs, sources, databases, lastLoaded>>

\* registry.py:213-216  the file is already being loaded: return
HelperSkip ==
    /\ rpc = "helper" /\ Top.ri = 0
    /\ AlreadyLoading(Top.path, loading)
    /\ Return(Pop)
    /\ events' = Append(events, Event("skip", Top.path, ""))
    /\ UNCHANGED <<yml, configs, sources, databases, loading, call, outcome,
                   dbBefore, cfgBefore,
                   lastLoaded>>

\* registry.py:218-223  open() finds no such file: FileNotFoundError, and
\* every active call is left
HelperOpenFails ==
    /\ rpc = "helper" /\ Top.ri = 0
    /\ ~AlreadyLoading(Top.path, loading)
    /\ Top.path \notin Paths
    /\ loading' = loading \cup {Top.path}
    /\ stack' = <<>>
    /\ rpc' = "idle"
    /\ outcome' = "FileNotFoundError"
    /\ events' = Append(events, Event("raise", Top.path, ""))
    /\ UNCHANGED <<yml, configs, sources, databases, call, dbBefore, cfgBefore,
                   lastLoaded>>

\* registry.py:218-228  mark the file as being loaded and read it
HelperOpen ==
    /\ rpc = "helper" /\ Top.ri = 0
    /\ ~AlreadyLoading(Top.path, loading)
    /\ Top.path \in Paths
    /\ loading' = loading \cup {Top.path}
    /\ stack' = [stack EXCEPT ![Len(stack)].ri = 1]
    /\ events' = Append(events, Event("open", Top.path, ""))
    /\ UNCHANGED <<yml, configs, sources, databases, rpc, call, outcome,
                   dbBefore, cfgBefore,
                   lastLoaded>>

\* registry.py:229-234  load the next requirement
HelperRequire ==
    /\ rpc = "helper" /\ Top.ri >= 1
    /\ Top.ri <= Len(yml[Top.path].Requirements)
    /\ stack' = Append([stack EXCEPT ![Len(stack)].ri = @ + 1],
                       Frame(yml[Top.path].Requirements[Top.ri]))
    /\ events' = Append(events, Event("require", Top.path,
                                      yml[Top.path].Requirements[Top.ri]))
    /\ UNCHANGED <<yml, configs, sources, databases, rpc, loading, call,
                   outcome, dbBefore, cfgBefore,
                   lastLoaded>>

\* registry.py:245-247  load the protocols of the next database of the file
HelperLoadProtocols ==
    /\ rpc = "helper" /\ Top.ri >= 1
    /\ RequirementsLoaded(Top)
    /\ Top.di <= Len(ProtocolOrder(yml[Top.path]))
    /\ LET db == ProtocolOrder(yml[Top.path])[Top.di]
           r  == load_protocols(databases, db, yml[Top.path].Protocols[db],
                                Top.path, call.mode)
       IN  IF r.raised
           THEN \* RuntimeError: every active call is left
                /\ stack' = <<>>
                /\ rpc' = "idle"
                /\ outcome' = "RuntimeError"
                /\ events' = Append(events, Event("raise", Top.path, db))
                /\ UNCHANGED databases
           ELSE /\ stack' = [stack EXCEPT ![Len(stack)].di = @ + 1]
                /\ databases' = r.databases
                /\ events' = Append(events,
                      Event(IF r.warned THEN "protocols-warn" ELSE "protocols",
                            Top.path, db))
                /\ UNCHANGED <<rpc, outcome>>
    /\ UNCHANGED <<yml, configs, sources, loading, call, dbBefore, cfgBefore,
                   lastLoaded>>

\* registry.py:249-264  register the path templates, save the configuration
\* and return
HelperFinish ==
    /\ rpc = "helper" /\ Top.ri >= 1
    /\ RequirementsLoaded(Top)
    /\ Top.di > Len(ProtocolOrder(yml[Top.path]))
    /\ sources' = SourcesAfter(sources, Top.path)
    /\ configs' = ConfigsAfter(configs, Top.path)
    /\ lastLoaded' = Append(SelectSeq(lastLoaded, LAMBDA q : q # Top.path),
                            Top.path)
    /\ Return(Pop)
    /\ events' = Append(events, Event("done", Top.path, ""))
    /\ UNCHANGED <<yml, databases, loading, call, outcome, dbBefore,
                   cfgBefore>>

\* registry.py:191  load_database calls _reload_meta_protocols and returns
ReloadMeta ==
    /\ rpc = "reload"
    /\ databases' = reload_meta_protocols(databases, configs)
    /\ rpc' = "idle"
    /\ outcome' = "ok"
    /\ events' = Append(events, Event("reload", "", MetaDB))
    /\ UNCHANGED <<yml, configs, sources, stack, loading, call, dbBefore, cfgBefore,
                   lastLoaded>>

\* Registry.__init__ (registry.py:113-167), with any files on disk
InitReg ==
    /\ MoreIdle
    /\ RecIdle
    /\ FilesIdle
    /\ MetaIdle
    /\ yml \in [Paths -> YmlContents]
    /\ configs = <<>>
    /\ sources = [db \in OrdinaryDBs |-> NoPath]
    /\ databases = NoDatabases
    /\ rpc = "idle"
    /\ stack = <<>>
    /\ loading = {}
    /\ call = [path |-> NoPath, mode |-> "OVERRIDE"]
    /\ outcome = "none"
    /\ events = <<>>
    /\ dbBefore = NoDatabases
    /\ cfgBefore = <<>>
    /\ lastLoaded = <<>>

\* the steps of a load_database call that is under way
CallStep ==
    \/ HelperSkip
    \/ HelperOpenFails
    \/ HelperOpen
    \/ HelperRequire
    \/ HelperLoadProtocols
    \/ HelperFinish
    \/ ReloadMeta

NextReg ==
    \/ \E path \in Paths \cup {MissingPath}, mode \in Modes :
          LoadDatabase(path, mode) /\ UNCHANGED <<recVars, filesVars, metaVars, moreVars>>
    \/ HelperSkip /\ UNCHANGED <<recVars, filesVars, metaVars, moreVars>>
    \/ HelperOpenFails /\ UNCHANGED <<recVars, filesVars, metaVars, moreVars>>
    \/ HelperOpen /\ UNCHANGED <<recVars, filesVars, metaVars, moreVars>>
    \/ HelperRequire /\ UNCHANGED <<recVars, filesVars, metaVars, moreVars>>
    \/ HelperLoadProtocols /\ UNCHANGED <<recVars, filesVars, metaVars, moreVars>>
    \/ HelperFinish /\ UNCHANGED <<recVars, filesVars, metaVars, moreVars>>
    \/ ReloadMeta /\ UNCHANGED <<recVars, filesVars, metaVars, moreVars>>

SpecReg == InitReg /\ [][NextReg]_vars

(***************************************************************************)
(* Claims about the Registry, checked under SpecReg                        *)
(***************************************************************************)
\* file `path` declares (db, key) and create_protocol makes a class for it
Declares(path, db, key) ==
    /\ path \in Paths
    /\ key \in yml[path].Protocols[db]
    /\ key[1] \in SupportedTasks

\* (db, key) resolves to a class in the registry state `dbs`
IsRegistered(dbs, db, key) == get_protocol(dbs, db, key) \in Paths

Returned == rpc = "idle" /\ outcome = "ok"

EventIndexes(e, path) ==
    {i \in 1..Len(events) : events[i].e = e /\ events[i].path = path}

ProtocolEvents(path) ==
    EventIndexes("protocols", path) \cup EventIndexes("protocols-warn", path)

\* the position of path in the sequence order, 0 when it is not there
IndexIn(order, path) ==
    IF path \in Range(order)
    THEN CHOOSE i \in 1..Len(order) : order[i] = path
    ELSE 0

\* the member of `set` that comes last in the sequence `order`
LatestIn(order, set) ==
    CHOOSE p \in set : \A q \in set : IndexIn(order, q) <= IndexIn(order, p)

\* the loaded files that declare the meta-protocol key
MetaDeclarers(key) == {p \in Range(configs) : Declares(p, MetaDB, key)}

\* C3: a triple of an ordinary database is registered, and load_database is
\* called in mode KEEP or OVERRIDE on a file that declares the same triple.
\* The call raises no RuntimeError; when it returns, get_protocol resolves
\* the triple to the definition registered before the call if the mode is
\* KEEP and to the definition of the file just loaded if it is OVERRIDE.
C3_KeepOverride ==
    (rpc = "idle" /\ call.mode \in {"KEEP", "OVERRIDE"})
      => /\ outcome # "RuntimeError"
         /\ outcome = "ok" =>
              \A db \in OrdinaryDBs, key \in ProtocolKeys :
                 (Declares(call.path, db, key) /\ IsRegistered(dbBefore, db, key))
                   => get_protocol(databases, db, key) =
                        IF call.mode = "KEEP"
                        THEN get_protocol(dbBefore, db, key)
                        ELSE call.path

\* a KEEP load of a file has returned, with a warning, and the triple it
\* re-declares still resolves to the other file, which registered it
C3_Witness ==
    /\ Returned /\ call.mode = "KEEP"
    /\ \E db \in OrdinaryDBs, key \in ProtocolKeys :
          /\ Declares(call.path, db, key)
          /\ IsRegistered(dbBefore, db, key)
          /\ get_protocol(dbBefore, db, key) # call.path
          /\ get_protocol(databases, db, key) = get_protocol(dbBefore, db, key)
          /\ \E i \in EventIndexes("protocols-warn", call.path) :
                events[i].db = db

\* C4: load_database in mode ERROR on a file that re-declares a registered
\* triple does not return normally, and when a call ends with RuntimeError
\* its mode is ERROR; after a call in mode ERROR that raised, every triple
\* that was registered before the call resolves as it did before.
C4_ErrorMode ==
    rpc = "idle"
      => /\ outcome = "RuntimeError" => call.mode = "ERROR"
         /\ (call.mode = "ERROR" /\ outcome # "ok") =>
               \A db \in DBs, key \in ProtocolKeys :
                  IsRegistered(dbBefore, db, key)
                    => get_protocol(databases, db, key) =
                         get_protocol(dbBefore, db, key)
         /\ (/\ call.mode = "ERROR"
             /\ \E db \in DBs, key \in ProtocolKeys :
                   Declares(call.path, db, key) /\ IsRegistered(dbBefore, db, key))
               => outcome \in {"RuntimeError", "FileNotFoundError"}

\* an ERROR load of a file that re-declares a triple registered by another
\* file has raised RuntimeError
C4_Witness ==
    /\ rpc = "idle" /\ outcome = "RuntimeError" /\ call.mode = "ERROR"
    /\ \E db \in OrdinaryDBs, key \in ProtocolKeys :
          /\ Declares(call.path, db, key)
          /\ IsRegistered(dbBefore, db, key)
          /\ get_protocol(dbBefore, db, key) # call.path
          /\ get_protocol(databases, db, key) # call.path

MaxDepth == Cardinality(Paths) + 1

MaxEvents == Cardinality(Paths) * (2 + 2 * MaxReqs + Cardinality(DBs)) + 2

\* C8: a load_database call ends, whatever the "Requirements" of the files:
\* a file that is already being loaded is skipped, so every file is opened
\* at most once per call, the nesting of the helper and the number of its
\* steps are bounded, and a call under way always has a next step.
C8_LoadTerminates ==
    /\ \A path \in Paths \cup {MissingPath} :
          /\ Cardinality(EventIndexes("open", path)) <= 1
          /\ Cardinality(EventIndexes("done", path)) <= 1
    /\ Len(stack) <= MaxDepth
    /\ Len(events) <= MaxEvents
    /\ rpc # "idle" => ENABLED CallStep
    /\ (rpc = "idle" /\ call.path # NoPath)
          => outcome \in {"ok", "RuntimeError", "FileNotFoundError"}

\* a call on a file whose requirement requires it back has returned: both
\* files were opened once and the second request for the first was skipped
C8_Witness ==
    /\ Returned
    /\ \E p, q \in Paths :
          /\ p # q /\ call.path = p
          /\ q \in Range(yml[p].Requirements)
          /\ p \in Range(yml[q].Requirements)
          /\ EventIndexes("skip", p) # {}
          /\ EventIndexes("done", p) # {} /\ EventIndexes("done", q) # {}

\* requirement `req` of `path` is `path` itself or a file that was being
\* loaded when the helper reached `path`
BeingLoadedAt(req, path) ==
    \E i \in EventIndexes("open", req), j \in EventIndexes("open", path) :
       /\ i <= j
       /\ \A k \in EventIndexes("done", req) : k > j

CompletedBefore(req, i) == \E j \in EventIndexes("done", req) : j < i

\* file `path` has just registered its protocols of an ordinary database
JustRegistered(path) ==
    /\ events # <<>>
    /\ events[Len(events)].path = path
    /\ events[Len(events)].e \in {"protocols", "protocols-warn"}
    /\ events[Len(events)].db \in OrdinaryDBs

\* the triples that `path`, which has just registered them, shares with one
\* of its requirements, and the requirements that declare them
SharedWithRequirement(path) ==
    {t \in OrdinaryDBs \X ProtocolKeys \X Range(yml[path].Requirements) :
        /\ t[1] = events[Len(events)].db
        /\ Declares(path, t[1], t[2])
        /\ Declares(t[3], t[1], t[2])}

\* C9 as stated: when a file S registers protocols, every file of its
\* "Requirements" has been completely processed; a triple that S and a
\* requirement both declare then resolves to S's definition under OVERRIDE
\* and to a requirement's under KEEP.
C9_Original ==
    \A path \in Paths :
       /\ \A i \in ProtocolEvents(path) :
             \A r \in 1..Len(yml[path].Requirements) :
                CompletedBefore(yml[path].Requirements[r], i)
       /\ JustRegistered(path) =>
             \A t \in SharedWithRequirement(path) :
                /\ call.mode = "OVERRIDE" =>
                      get_protocol(databases, t[1], t[2]) = path
                /\ call.mode = "KEEP" =>
                      \E u \in SharedWithRequirement(path) :
                         /\ u[1] = t[1] /\ u[2] = t[2]
                         /\ get_protocol(databases, t[1], t[2]) = u[3]

\* C9: when a file S registers protocols, every file of its "Requirements"
\* other than S itself and the files whose loading was under way when S
\* was reached has been completely processed; a triple that S and such a
\* requirement both declare then resolves to S's definition under OVERRIDE
\* and, under KEEP, to the definition registered before the call if there
\* was one and otherwise to one registered before S's, not to S's.
C9_RequirementsFirst ==
    \A path \in Paths :
       /\ \A i \in ProtocolEvents(path) :
             \A r \in 1..Len(yml[path].Requirements) :
                \/ CompletedBefore(yml[path].Requirements[r], i)
                \/ BeingLoadedAt(yml[path].Requirements[r], path)
       /\ JustRegistered(path) =>
             \A t \in SharedWithRequirement(path) :
                ~BeingLoadedAt(t[3], path) =>
                   /\ call.mode = "OVERRIDE" =>
                         get_protocol(databases, t[1], t[2]) = path
                   /\ call.mode = "KEEP" =>
                         IF IsRegistered(dbBefore, t[1], t[2])
                         THEN get_protocol(databases, t[1], t[2]) =
                                 get_protocol(dbBefore, t[1], t[2])
                         ELSE get_protocol(databases, t[1], t[2])
                                 \in Paths \ {path}

\* in a KEEP call, a file has just registered a triple that its requirement
\* also declares and that was not registered before the call: the
\* requirement was completely processed first and the triple resolves to it
C9_Witness ==
    /\ call.mode = "KEEP"
    /\ \E path \in Paths :
          /\ JustRegistered(path)
          /\ \E t \in SharedWithRequirement(path) :
                /\ t[3] # path
                /\ ~IsRegistered(dbBefore, t[1], t[2])
                /\ CompletedBefore(t[3], Len(events))
                /\ get_protocol(databases, t[1], t[2]) = t[3]

(***************************************************************************)
(* More claims about ProtocolFile, checked under SpecRec                   *)
(***************************************************************************)
\* the step is a caller's get, delete or keys operation
GetStep(k) == last'.op = "get" /\ last'.key = k

DeleteStep(k) == last'.op = "delete" /\ last'.key = k

KeysStep == last'.op = "keys"

RecordUnchanged == UNCHANGED <<store, lazy, evaluating, calls>>

\* C11 as stated: get(k) returns the eager value of k, invoking no loader,
\* when k is in eager; otherwise, when k is pending, it invokes k's loader,
\* moves k to eager with the computed value and returns it; otherwise it
\* raises KeyError and leaves the record unchanged.
C11_Original ==
    [][\A k \in Keys : GetStep(k) =>
          IF DictHas(store, k)
          THEN /\ last'.status = "ok" /\ last'.out = DictGet(store, k)
               /\ calls' = calls
          ELSE IF DictHas(lazy, k)
          THEN /\ calls'[k] = calls[k] + 1
               /\ last'.status = "ok" =>
                     /\ ~DictHas(lazy', k) /\ DictHas(store', k)
                     /\ last'.out = DictGet(store', k)
          ELSE last'.status = "KeyError" /\ RecordUnchanged]_vars

\* C11: get(k) invokes k's loader when k is pending and no evaluation of k
\* has been started and not completed (k's in-evaluation count is zero);
\* when the loader returns, k is moved from pending to eager with the
\* computed value, which replaces an eager value of k, and that value is
\* returned.  Otherwise, when k is in eager, its eager value is returned,
\* no loader is invoked and the record is unchanged; otherwise KeyError is
\* raised and the record is unchanged.
C11_GetItem ==
    [][\A k \in Keys : GetStep(k) =>
          IF DictHas(lazy, k) /\ evaluating[k] = 0
          THEN /\ calls'[k] = calls[k] + 1
               /\ last'.status = "ok" =>
                     /\ ~DictHas(lazy', k) /\ DictHas(store', k)
                     /\ last'.out = DictGet(store', k)
          ELSE IF DictHas(store, k)
          THEN /\ last'.status = "ok" /\ last'.out = DictGet(store, k)
               /\ RecordUnchanged
          ELSE last'.status = "KeyError" /\ RecordUnchanged]_vars

\* a get has run the loader of its key, which is now eager with the value
\* returned and no longer pending
C11_Witness ==
    /\ last.op = "get" /\ last.status = "ok" /\ last.ran
    /\ calls[last.key] = 1
    /\ ~DictHas(lazy, last.key)
    /\ DictGet(store, last.key) = last.out

\* C12: delete(k) on a key that is in eager, in pending or in both succeeds
\* and removes it from both, so that keys() does not list it and get(k)
\* raises KeyError; delete(k) on a key that is in neither raises KeyError and
\* leaves the record unchanged.
C12_Delete ==
    [][\A k \in Keys : DeleteStep(k) =>
          IF DictHas(store, k) \/ DictHas(lazy, k)
          THEN /\ last'.status = "ok"
               /\ ~DictHas(store', k) /\ ~DictHas(lazy', k)
               /\ k \notin Range(IterKeys(store', lazy'))
               /\ GetItem(RecState(store', lazy', evaluating', calls'), k).status
                     = "KeyError"
          ELSE last'.status = "KeyError" /\ RecordUnchanged]_vars

\* the two groups of the keys that keys() lists: the keys of _store, and the
\* keys of lazy that are not keys of _store, each in insertion order
EagerKeys == DictKeys(store)

PendingOnly(i) == lazy[i][1] \notin Range(EagerKeys)

\* C13: keys() lists each key of the union of eager and pending once, the
\* eager keys first and then the pending-only keys, in insertion order
\* within each group; the length of the record is the number of keys
\* listed; listing them invokes no loader and changes neither map.
C13_Keys ==
    [][KeysStep =>
          LET seq == last'.seq
              n   == Len(EagerKeys)
          IN  /\ Range(seq) = Range(EagerKeys) \cup Range(DictKeys(lazy))
              /\ \A i, j \in 1..Len(seq) : i # j => seq[i] # seq[j]
              /\ Len(seq) >= n /\ SubSeq(seq, 1, n) = EagerKeys
              /\ \A i, j \in 1..Len(lazy) :
                    (i < j /\ PendingOnly(i) /\ PendingOnly(j)) =>
                       \E a, b \in (n + 1)..Len(seq) :
                          a < b /\ seq[a] = lazy[i][1] /\ seq[b] = lazy[j][1]
              /\ last'.out = Len(seq)
              /\ RecordUnchanged]_vars

\* keys() has listed a record with one key that is both eager and pending
\* and one that is only pending: two keys, the eager one first
C13_Witness ==
    /\ last.op = "keys"
    /\ Len(store) = 1 /\ Len(lazy) = 2
    /\ DictHas(lazy, store[1][1])
    /\ lazy[1][1] # store[1][1]
    /\ last.seq = <<store[1][1], lazy[1][1]>>
    /\ last.out = 2

(***************************************************************************)
(* ProtocolFile.files(): a record whose "uri" is a list stands for one     *)
(* record per element                                                      *)
(***************************************************************************)
MaxUris == 2

\* a value is a scalar (one item) or a list of scalars; Absent is the value
\* of a field that the dict does not have
Scalar(x) == [isList |-> FALSE, items |-> <<x>>]

Absent == [isList |-> FALSE, items |-> <<>>]

ScalarsOf(S) == {Scalar(x) : x \in S}

ListsOf(S) ==
    {[isList |-> TRUE, items |-> q] :
        q \in UNION {[1..n -> S] : n \in 0..MaxUris}}

XFields == {"uri", "database", "speaker"}

XLazyKeys == {"uri", "annotation"}

UriValues == ScalarsOf({"a"}) \cup ListsOf({"a", "b"})

\* a loader, reduced to the value it returns
NoLoader == [present |-> FALSE, returns |-> Absent]

XLoader(v) == [present |-> TRUE, returns |-> v]

\* the records that files() may be called on
XStores ==
    {f \in [XFields -> {Absent} \cup UriValues \cup ScalarsOf({"db", "s"})
                          \cup ListsOf({"s", "t"})] :
        /\ f["uri"] \in {Absent} \cup UriValues
        /\ f["database"] \in {Absent, Scalar("db")}
        /\ f["speaker"] \in {Absent, Scalar("s")} \cup ListsOf({"s", "t"})}

XLazies ==
    {l \in [XLazyKeys -> {NoLoader} \cup {XLoader(v) : v \in UriValues}
                            \cup {XLoader(Scalar("ann"))}] :
        /\ l["uri"] \in {NoLoader} \cup {XLoader(v) : v \in UriValues}
        /\ l["annotation"] \in {NoLoader, XLoader(Scalar("ann"))}}

\* protocol.py:163  uris = self["uri"]  (__getitem__, protocol.py:78-102):
\* the record afterwards and the value, or KeyError
XGetUri(st, lz) ==
    IF lz["uri"].present
    THEN [store |-> [st EXCEPT !["uri"] = lz["uri"].returns],
          lazy |-> [lz EXCEPT !["uri"] = NoLoader],
          status |-> "ok", value |-> lz["uri"].returns]
    ELSE IF st["uri"] # Absent
    THEN [store |-> st, lazy |-> lz, status |-> "ok", value |-> st["uri"]]
    ELSE [store |-> st, lazy |-> lz, status |-> "KeyError", value |-> Absent]

\* (mutation of LengthMismatch: the lengths are not compared)
LengthMismatch_ignored(value, n_uris) == FALSE

\* protocol.py:183  len(value) != n_uris, for a value that is a list
LengthMismatch(value, n_uris) == Len(value.items) # n_uris

\* protocol.py:174-189  the loop over abs(self): some list has another length
MustRaiseMismatch(st) ==
    \E key \in XFields \ {"uri"} :
       /\ st[key] # Absent /\ st[key].isList
       /\ LengthMismatch(st[key], Len(st["uri"].items))

\* protocol.py:191-192  zip(*precomputed.values()) stops with the shortest
\* list; itertools.repeat(value) never stops
ZipLen(st) ==
    CHOOSE m \in 0..MaxUris :
       /\ \A key \in XFields : (st[key] # Absent /\ st[key].isList)
                                  => m <= Len(st[key].items)
       /\ \E key \in XFields : st[key] # Absent /\ st[key].isList
                                  /\ m = Len(st[key].items)

\* protocol.py:193-194  ProtocolFile(precomputed_one, self.lazy), i-th of zip
XRecord(st, lz, i) ==
    [self |-> FALSE,
     store |-> [key \in XFields |->
                  IF st[key] = Absent THEN Absent
                  ELSE IF st[key].isList THEN Scalar(st[key].items[i])
                  ELSE st[key]],
     lazy |-> lz]

\* protocol.py:165  yield self
XSelf(st, lz) == [self |-> TRUE, store |-> st, lazy |-> lz]

\* record.files(): the generator is made, none of its code has run
ExpandCall ==
    /\ xpc = "new"
    /\ xpc' = "called"
    /\ UNCHANGED <<xstore, xlazy, xi, xout, xerr>>

\* protocol.py:163-194  the first next(): up to the first yield, to the end
\* of the generator or to an exception
ExpandFirst ==
    /\ xpc = "called"
    /\ LET g == XGetUri(xstore, xlazy) IN
       /\ xstore' = g.store
       /\ xlazy' = g.lazy
       /\ IF g.status # "ok"
          THEN xpc' = "error" /\ xerr' = g.status /\ UNCHANGED <<xi, xout>>
          ELSE IF ~g.value.isList
          THEN /\ xpc' = "self"
               /\ xout' = <<XSelf(g.store, g.lazy)>>
               /\ UNCHANGED <<xi, xerr>>
          ELSE IF MustRaiseMismatch(g.store)
          THEN xpc' = "error" /\ xerr' = "ValueError" /\ UNCHANGED <<xi, xout>>
          ELSE IF ZipLen(g.store) = 0
          THEN xpc' = "done" /\ UNCHANGED <<xi, xout, xerr>>
          ELSE /\ xpc' = "yielding"
               /\ xi' = 1
               /\ xout' = <<XRecord(g.store, g.lazy, 1)>>
               /\ UNCHANGED xerr

\* protocol.py:192-194  a later next(): the next record of zip, or the end
ExpandNext ==
    /\ xpc = "yielding"
    /\ IF xi < ZipLen(xstore)
       THEN /\ xi' = xi + 1
            /\ xout' = Append(xout, XRecord(xstore, xlazy, xi + 1))
            /\ UNCHANGED xpc
       ELSE xpc' = "done" /\ UNCHANGED <<xi, xout>>
    /\ UNCHANGED <<xstore, xlazy, xerr>>

\* protocol.py:165-166  next() after `yield self`: return
ExpandSelfEnd ==
    /\ xpc = "self"
    /\ xpc' = "done"
    /\ UNCHANGED <<xstore, xlazy, xi, xout, xerr>>

\* ProtocolFile.__init__ (protocol.py:61-72): any record
InitExpand ==
    /\ RecIdle
    /\ FilesIdle
    /\ MetaIdle
    /\ RegIdle
    /\ SubIdle
    /\ TriIdle
    /\ FindIdle
    /\ MergeIdle
    /\ LateIdle
    /\ xstore \in XStores
    /\ xlazy \in XLazies
    /\ xpc = "new"
    /\ xi = 0
    /\ xout = <<>>
    /\ xerr = ""

NextExpand ==
    \/ ExpandCall /\ UNCHANGED <<oldVars, subVars, triVars, findVars, mergeVars, lateVars>>
    \/ ExpandFirst /\ UNCHANGED <<oldVars, subVars, triVars, findVars, mergeVars, lateVars>>
    \/ ExpandNext /\ UNCHANGED <<oldVars, subVars, triVars, findVars, mergeVars, lateVars>>
    \/ ExpandSelfEnd /\ UNCHANGED <<oldVars, subVars, triVars, findVars, mergeVars, lateVars>>

SpecExpand == InitExpand /\ [][NextExpand]_vars

(***************************************************************************)
(* Claims about ProtocolFile.files(), checked under SpecExpand             *)
(***************************************************************************)
XStarted == xpc \in {"self", "yielding", "done", "error"} /\ xerr # "KeyError"

\* another eager field is a list whose length is not that of uri
OtherLength ==
    \E key \in XFields \ {"uri"} :
       xstore[key].isList /\ Len(xstore[key].items) # Len(xstore["uri"].items)

\* C14: files() on a record whose uri is a list of n elements yields n
\* records, the i-th with the i-th element as uri, every scalar eager field
\* unchanged, the i-th element of every eager list of length n, and the
\* pending loaders of the record; when another eager list has another
\* length, ValueError is raised and nothing is yielded; when uri is not a
\* list, the record itself is yielded and nothing else.
C14_Expand ==
    XStarted =>
       IF ~xstore["uri"].isList
       THEN xpc # "error" /\ xout = <<XSelf(xstore, xlazy)>>
       ELSE IF OtherLength
       THEN xpc = "error" /\ xerr = "ValueError" /\ xout = <<>>
       ELSE /\ xpc # "error"
            /\ Len(xout) <= Len(xstore["uri"].items)
            /\ xpc = "done" => Len(xout) = Len(xstore["uri"].items)
            /\ \A i \in 1..Len(xout) :
                  /\ ~xout[i].self
                  /\ xout[i].store["uri"] = Scalar(xstore["uri"].items[i])
                  /\ xout[i].lazy = xlazy
                  /\ \A key \in XFields \ {"uri"} :
                        xout[i].store[key] =
                           IF xstore[key].isList
                           THEN Scalar(xstore[key].items[i])
                           ELSE xstore[key]

\* the expansion of a record with a list of two uris, a scalar field, a list
\* of two values and a pending loader has ended, with two different records
C14_Witness ==
    /\ xpc = "done" /\ Len(xout) = 2
    /\ xstore["database"] = Scalar("db")
    /\ xstore["speaker"].isList
    /\ xlazy["annotation"].present
    /\ xout[1].store["uri"] # xout[2].store["uri"]
    /\ xout[1].store["speaker"] # xout[2].store["speaker"]

(***************************************************************************)
(* create_protocol, subset_iter, gather_loaders and the subset methods     *)
(* (train(), development(), test()) of the class create_protocol makes      *)
(***************************************************************************)
\* custom.py:470-478  subset names, here two of them
IterSubsets == {"train", "development"}

Generators == {1, 2}

\* the lines of the file that the "uri" entry names (loader.py:69-71)
LstLines == <<"u1", "u2", "u3">>

\* what an entry other than "uri" may be: a number, a path with
\* placeholders (whose suffix has a loader or not, and whose file exists or
\* not once the placeholders are filled), or a path without placeholders (an
\* existing file with a loader, a missing file, or a suffix without loader)
EntryKinds ==
    {"absent", "number", "template", "template_missing", "template_nosuffix",
     "file", "file_missing", "file_nosuffix"}

NoEntries == [urikey |-> "undeclared", lst |-> 0, annotation |-> "absent"]

\* the entries of a subset: the key of the list of uris ("uri", deprecated
\* "uris", or none), the number of lines of that file (None when there is
\* no such file) and the "annotation" entry
SubsetEntries ==
    [urikey : {"uri"}, lst : 0..MaxUris, annotation : EntryKinds]
    \cup [urikey : {"uri"}, lst : {None}, annotation : {"absent", "file"}]
    \cup [urikey : {"uris"}, lst : 0..MaxUris, annotation : {"absent"}]
    \cup [urikey : {"none"}, lst : {0}, annotation : {"absent", "file"}]

\* custom.py:216-271  gather_loaders: the keys that get a loader, or the
\* exception.  The suffix ".lst" of a deprecated "uris" entry has no loader
\* (setup.py:47-54), and "uris" is not skipped as "uri" is (custom.py:220).
gather_loaders(e) ==
    IF e.urikey = "uris"
    THEN [status |-> "TypeError", keys |-> {}]
    ELSE IF e.annotation = "template_nosuffix"
    THEN [status |-> "ValueError", keys |-> {}]
    ELSE IF e.annotation = "file_missing"
    THEN [status |-> "FileNotFoundError", keys |-> {}]
    ELSE IF e.annotation = "file_nosuffix"
    THEN [status |-> "TypeError", keys |-> {}]
    ELSE [status |-> "ok",
          keys |-> IF e.annotation = "absent" THEN {} ELSE {"annotation"}]

\* custom.py:305-322  subset_iter up to its loop: the uris and the loaders,
\* or the exception
SubsetHeader(e) ==
    IF e.urikey = "none" THEN [status |-> "ValueError", n |-> 0, keys |-> {}]
    ELSE IF e.lst = None
    THEN [status |-> "FileNotFoundError", n |-> 0, keys |-> {}]
    ELSE [status |-> gather_loaders(e).status, n |-> e.lst,
          keys |-> gather_loaders(e).keys]

\* custom.py:110-113  a Template loader raises when its file is missing
LoaderRaises(e, key) == key = "annotation" /\ e.annotation = "template_missing"

\* custom.py:324-327  the record that subset_iter yields for the i-th uri
SubsetRecord(subset, e, i) ==
    [uri |-> LstLines[i], database |-> "db", subset |-> subset,
     scope |-> "file", store |-> {}, lazy |-> SubsetHeader(e).keys]

\* protocol.py:236-237 and 61-63  preprocess: ProtocolFile(current_file,
\* lazy=self.preprocessors) sets _store to dict(current_file), which reads
\* every key of the record, and lazy to the preprocessors (here none)
Preprocessed(rec) == [rec EXCEPT !.store = rec.store \cup rec.lazy, !.lazy = {}]

\* the keys whose loader dict(current_file) runs
Forced(rec) == rec.lazy \ Preprocessed(rec).lazy

\* (mutation of Registers: a subset is registered when its files are found)
Registers_checked(e) == e # NoEntries /\ SubsetHeader(e).status = "ok"

\* custom.py:468-508  create_protocol gives a method to every subset of the
\* protocol entries: it reads no file
Registers(e) == e # NoEntries

\* (mutation of NextIndex: the generators share one cursor)
NextIndex_shared(g) == gen[1].i + gen[2].i + 1

\* custom.py:324  for uri in uris: each generator has its own position
NextIndex(g) == gen[g].i + 1

NoGen == [kind |-> "", subset |-> "", pc |-> "none", i |-> 0, err |-> ""]

\* custom.py:401-531  create_protocol
Register ==
    /\ ~sreg
    /\ sreg' = TRUE
    /\ smethods' = {sub \in IterSubsets : Registers(sentries[sub])}
    /\ UNCHANGED <<sentries, gen, gout, invoked, readBy>>

\* a call of protocol.{subset}_iter() (kind "iter") or of protocol.train(),
\* development(), test() (kind "method"): a generator none of whose code
\* has run
GenCall(g, subset, kind) ==
    /\ sreg /\ subset \in smethods
    /\ gen[g].pc = "none"
    /\ gen' = [gen EXCEPT ![g] = [kind |-> kind, subset |-> subset,
                                  pc |-> "new", i |-> 0, err |-> ""]]
    /\ UNCHANGED <<sentries, sreg, smethods, gout, invoked, readBy>>

\* the generator raises
GenRaise(g, err) ==
    gen' = [gen EXCEPT ![g].pc = "raised", ![g].err = err]

\* next(generator).  custom.py:305-327 for subset_iter;
\* speaker_diarization.py:83-91 for train(), which yields
\* self.preprocess(item) for each item of the subset iterator
GenNext(g) ==
    /\ gen[g].pc \in {"new", "running"}
    /\ LET e == sentries[gen[g].subset]
           h == SubsetHeader(e)
           i == NextIndex(g)
           rec == SubsetRecord(gen[g].subset, e, i)
       IN  IF gen[g].pc = "new" /\ h.status # "ok"
           THEN GenRaise(g, h.status) /\ UNCHANGED <<gout, invoked>>
           ELSE IF i > h.n
           THEN /\ gen' = [gen EXCEPT ![g].pc = "done"]
                /\ UNCHANGED <<gout, invoked>>
           ELSE IF gen[g].kind = "iter"
           THEN /\ gen' = [gen EXCEPT ![g].pc = "running", ![g].i = i]
                /\ gout' = [gout EXCEPT ![g] = Append(@, rec)]
                /\ UNCHANGED invoked
           ELSE /\ invoked' = invoked \cup {<<g, i, k>> : k \in Forced(rec)}
                /\ IF \E k \in Forced(rec) : LoaderRaises(e, k)
                   THEN GenRaise(g, "FileNotFoundError") /\ UNCHANGED gout
                   ELSE /\ gen' = [gen EXCEPT ![g].pc = "running", ![g].i = i]
                        /\ gout' = [gout EXCEPT ![g] =
                                       Append(@, Preprocessed(rec))]
    /\ UNCHANGED <<sentries, sreg, smethods, readBy>>

\* record[key] by the caller, on the i-th record that generator g yielded
\* (protocol.py:78-102): a pending loader that has not run yet is run
ReadField(g, i, key) ==
    /\ i \in 1..Len(gout[g])
    /\ <<g, i, key>> \notin readBy
    /\ readBy' = readBy \cup {<<g, i, key>>}
    /\ invoked' = IF key \in gout[g][i].lazy
                  THEN invoked \cup {<<g, i, key>>} ELSE invoked
    /\ UNCHANGED <<sentries, sreg, smethods, gen, gout>>

\* the entries of one protocol of a database.yml file
InitSubset ==
    /\ RecIdle /\ FilesIdle /\ MetaIdle /\ RegIdle /\ ExpIdle
    /\ TriIdle /\ FindIdle /\ MergeIdle /\ LateIdle
    /\ sentries \in [IterSubsets -> SubsetEntries \cup {NoEntries}]
    /\ sentries["development"] \in
          {NoEntries,
           [urikey |-> "uri", lst |-> 1, annotation |-> "file"],
           [urikey |-> "none", lst |-> 0, annotation |-> "file"]}
    /\ sreg = FALSE
    /\ smethods = {}
    /\ gen = [g \in Generators |-> NoGen]
    /\ gout = [g \in Generators |-> <<>>]
    /\ invoked = {}
    /\ readBy = {}

NextSubset ==
    \/ Register /\ UNCHANGED <<oldVars, expVars, triVars, findVars, mergeVars, lateVars>>
    \/ \E g \in Generators, subset \in IterSubsets, kind \in {"iter", "method"} :
          GenCall(g, subset, kind) /\ UNCHANGED <<oldVars, expVars, triVars, findVars, mergeVars, lateVars>>
    \/ \E g \in Generators : GenNext(g) /\ UNCHANGED <<oldVars, expVars, triVars, findVars, mergeVars, lateVars>>
    \/ \E g \in Generators, i \in 1..MaxUris :
          ReadField(g, i, "annotation") /\ UNCHANGED <<oldVars, expVars, triVars, findVars, mergeVars, lateVars>>

SpecSubset == InitSubset /\ [][NextSubset]_vars

(***************************************************************************)
(* Claims about the subset iterators, checked under SpecSubset             *)
(***************************************************************************)
\* the subset has a list of uris and a loader for each of its other entries
ValidSubset(sub) ==
    /\ sentries[sub].urikey = "uri"
    /\ sentries[sub].lst # None
    /\ sentries[sub].annotation
          \in {"absent", "number", "template", "template_missing", "file"}

\* the records that an iteration of the subset is to yield
ExpectedRecords(sub) ==
    [i \in 1..sentries[sub].lst |->
        [uri |-> LstLines[i], database |-> "db", subset |-> sub,
         scope |-> "file", store |-> {},
         lazy |-> IF sentries[sub].annotation = "absent" THEN {}
                  ELSE {"annotation"}]]

C17_LazyLoaders == invoked \subseteq readBy

\* C18: create_protocol gives every declared subset its method whatever
\* files its entries name; an iteration raises only if its own subset has
\* no "uri" entry, names a missing file or a suffix without loader, and
\* then on its first step; an iteration of a subset whose entries are
\* valid is not affected by a broken subset of the same protocol.
C18_RegistrationReadsNoFile ==
    /\ sreg => smethods = {sub \in IterSubsets : sentries[sub] # NoEntries}
    /\ \A g \in Generators :
          /\ (gen[g].pc = "raised" /\ gen[g].kind = "iter")
                => ~ValidSubset(gen[g].subset) /\ gout[g] = <<>>
          /\ (gen[g].pc # "none" /\ gen[g].kind = "iter"
                /\ ~ValidSubset(gen[g].subset))
                => gout[g] = <<>> /\ gen[g].pc \in {"new", "raised"}
          /\ (gen[g].pc = "done" /\ ValidSubset(gen[g].subset))
                => Len(gout[g]) = sentries[gen[g].subset].lst

\* both subsets are registered; the iteration of "train", whose entry names
\* a missing file, has raised, and an iteration of "development" started
\* and completed
C18_Witness ==
    /\ smethods = IterSubsets
    /\ sentries["train"].annotation = "file_missing"
    /\ \E g, h \in Generators :
          /\ gen[g].subset = "train" /\ gen[g].pc = "raised"
          /\ gen[g].err = "FileNotFoundError"
          /\ gen[h].subset = "development" /\ gen[h].pc = "done"
          /\ Len(gout[h]) = 1

(***************************************************************************)
(* subset_trial (custom.py:329-385): the "{subset}_trial" method of a      *)
(* protocol whose subset has a "trial" entry.  It keeps one record per    *)
(* uri in the dict "files" and yields one {reference, file1, file2} per   *)
(* row of the trial table.  Each record is made by                         *)
(* self.preprocess(ProtocolFile({...}, lazy=lazy_loader)).                 *)
(***************************************************************************)
MaxRows == 2

\* the uris that the rows of a trial table name
TrialUris == {"a", "b", "c"}

\* loader.py:74-93  load_trial: a row of the table
TrialRows == [uri1 : TrialUris, uri2 : TrialUris, reference : BOOLEAN]

TrialTables == UNION {[1..n -> TrialRows] : n \in 0..MaxRows}

\* the entries of the subset besides "uri" and "trial": "annotation" and
\* "annotated"
TrialEntries ==
    [annotation : {"absent", "file", "template_missing", "file_missing"},
     annotated : {"absent", "file"}]

\* custom.py:357-358  lazy_loader: the loaders gathered from the entries
\* ("trial" is skipped, custom.py:220) and "try_with", or the exception
TrialLoaders(e) ==
    LET g == gather_loaders([urikey |-> "uri", lst |-> 0,
                             annotation |-> e.annotation])
    IN  [status |-> g.status,
         keys |-> g.keys
                  \cup (IF e.annotated = "absent" THEN {} ELSE {"annotated"})
                  \cup {"try_with"}]

\* util.py:360-400  get_annotated, the loader of "try_with": the
\* "annotated" field when the record has one; otherwise (the record has no
\* "duration") the extent of its "annotation", and KeyError when the record
\* has no "annotation" either
get_annotated(e) ==
    IF e.annotated # "absent" THEN "ok"
    ELSE IF e.annotation = "absent" THEN "KeyError"
    ELSE IF e.annotation = "template_missing" THEN "FileNotFoundError"
    ELSE "ok"

\* protocol.py:236-237 and 61-63  preprocess of a new record:
\* dict(current_file) reads every key, so that every loader runs, in the
\* order of lazy_loader: those of the entries, then "try_with"
TrialPreprocess(e) ==
    IF e.annotation = "template_missing" THEN "FileNotFoundError"
    ELSE get_annotated(e)

\* custom.py:366-379  the uris of a row that are not in "files" yet, in the
\* order they are looked at
NewUris(row, files) ==
    (IF files[row.uri1] = 0 THEN <<row.uri1>> ELSE <<>>)
    \o (IF row.uri2 # row.uri1 /\ files[row.uri2] = 0 THEN <<row.uri2>>
        ELSE <<>>)

\* the instances made for these uris: for each, the record given to
\* preprocess and the record that preprocess returns
NewInstances(uris) ==
    [k \in 1..(2 * Len(uris)) |->
        [uri |-> uris[(k + 1) \div 2],
         made |-> IF k % 2 = 1 THEN "ProtocolFile" ELSE "preprocess"]]

\* custom.py:329  calling the method makes a generator: nothing runs
TrialCall ==
    /\ tpc = "new"
    /\ tpc' = "called"
    /\ UNCHANGED <<tentries, trials, trow, tfiles, tinst, tout, terr>>

\* custom.py:357-364  the first next(): lazy_loader, "files" and the table
TrialFirst ==
    /\ tpc = "called"
    /\ IF TrialLoaders(tentries).status # "ok"
       THEN /\ tpc' = "raised"
            /\ terr' = TrialLoaders(tentries).status
       ELSE /\ tpc' = "rows"
            /\ terr' = terr
    /\ UNCHANGED <<tentries, trials, trow, tfiles, tinst, tout>>

\* custom.py:364-385  one turn of the loop: the records of the uris of the
\* row that are not cached are made and cached, and the tuple is yielded;
\* after the last row the generator returns
TrialNext ==
    /\ tpc = "rows"
    /\ IF trow = Len(trials)
       THEN /\ tpc' = "done"
            /\ UNCHANGED <<trow, tfiles, tinst, tout, terr>>
       ELSE LET row == trials[trow + 1]
                uris == NewUris(row, tfiles)
                base == Len(tinst)
                files == [u \in TrialUris |->
                            IF \E k \in 1..Len(uris) : uris[k] = u
                            THEN base + 2 * (CHOOSE k \in 1..Len(uris) :
                                                uris[k] = u)
                            ELSE tfiles[u]]
            IN  IF uris # <<>> /\ TrialPreprocess(tentries) # "ok"
                THEN /\ tpc' = "raised"
                     /\ terr' = TrialPreprocess(tentries)
                     /\ tinst' = Append(tinst, [uri |-> uris[1],
                                                made |-> "ProtocolFile"])
                     /\ UNCHANGED <<trow, tfiles, tout>>
                ELSE /\ tinst' = tinst \o NewInstances(uris)
                     /\ tfiles' = files
                     /\ tout' = Append(tout,
                                   [reference |-> row.reference,
                                    file1 |-> files[row.uri1],
                                    file2 |-> files[row.uri2]])
                     /\ trow' = trow + 1
                     /\ UNCHANGED <<tpc, terr>>
    /\ UNCHANGED <<tentries, trials>>

\* custom.py:511-523  a subset with a "trial" entry, and its table
InitTrial ==
    /\ RecIdle /\ FilesIdle /\ MetaIdle /\ RegIdle
    /\ ExpIdle /\ SubIdle /\ FindIdle /\ MergeIdle /\ LateIdle
    /\ tentries \in TrialEntries
    /\ trials \in TrialTables
    /\ tpc = "new"
    /\ trow = 0
    /\ tfiles = [u \in TrialUris |-> 0]
    /\ tinst = <<>>
    /\ tout = <<>>
    /\ terr = ""

NextTrial ==
    \/ TrialCall /\ UNCHANGED <<oldVars, expVars, subVars, findVars, mergeVars, lateVars>>
    \/ TrialFirst /\ UNCHANGED <<oldVars, expVars, subVars, findVars, mergeVars, lateVars>>
    \/ TrialNext /\ UNCHANGED <<oldVars, expVars, subVars, findVars, mergeVars, lateVars>>

SpecTrial == InitTrial /\ [][NextTrial]_vars

\* the uris that the first n rows name
UrisOfRows(n) ==
    {trials[r].uri1 : r \in 1..n} \cup {trials[r].uri2 : r \in 1..n}

\* the records that the tuples carry
TupleRecords ==
    {tout[r].file1 : r \in 1..Len(tout)} \cup {tout[r].file2 : r \in 1..Len(tout)}

\* C16: within one trial iteration, one tuple {reference, file1, file2} is
\* yielded per row of the table, in row order; the tuples that name the
\* same uri carry the very same record, so that there are as many records
\* as distinct uris in the table.
C16_Trials ==
    /\ \A r \in 1..Len(tout) :
          /\ tout[r].reference = trials[r].reference
          /\ tinst[tout[r].file1].uri = trials[r].uri1
          /\ tinst[tout[r].file2].uri = trials[r].uri2
    /\ \A i \in TupleRecords, j \in TupleRecords :
          tinst[i].uri = tinst[j].uri => i = j
    /\ Cardinality(TupleRecords) = Cardinality(UrisOfRows(Len(tout)))
    /\ (tpc \in {"done", "raised"} /\ TrialLoaders(tentries).status = "ok")
          => Len(tout) = Len(trials)

(***************************************************************************)
(* FileFinder.__call__ (file_finder.py:63-135): the path of the file of a *)
(* record, looked for with the path templates that registry.sources has   *)
(* for the database of the record.  A template is                          *)
(* "/corpus/<directory>/{uri}.wav" whose directory is a name, the          *)
(* placeholder "{database}" or the pattern "*"; a file is <<directory,     *)
(* uri>>.                                                                  *)
(***************************************************************************)
MaxTemplates == 2

MaxLookups == 2

FinderDatabases == {"db1", "db2"}

FinderUris == {"u1", "u2"}

\* the directories, in the order Path.glob lists them
Directories == <<"db1", "db2">>

DiskFiles == [dir : Range(Directories), uri : FinderUris]

PathTemplates == {"db1", "db2", "{database}", "*"}

\* what registry.sources holds for a database: nothing, one template, or a
\* list of templates
NoSource == [kind |-> "none"]

SourceValues ==
    {NoSource}
    \cup [kind : {"text"}, template : PathTemplates]
    \cup [kind : {"list"},
          templates : UNION {[1..n -> PathTemplates] : n \in 1..MaxTemplates}]

\* file_finder.py:87  path_template.format(uri=uri, database=database)
FormatTemplate(template, uri, database) ==
    [dir |-> IF template = "{database}" THEN database ELSE template,
     uri |-> uri]

\* file_finder.py:98-111  the files found for one path: those that
\* root.glob(pattern) lists when the path has a "*", the path itself when it
\* is a file
FoundFor(path, disk) ==
    IF path.dir = "*"
    THEN LET hit(d) == [dir |-> d, uri |-> path.uri] \in disk
             dirs == SelectSeq(Directories, hit)
         IN  [k \in 1..Len(dirs) |-> [dir |-> dirs[k], uri |-> path.uri]]
    ELSE IF path \in disk THEN <<path>> ELSE <<>>

\* file_finder.py:86-111  the loop over the templates: "found"
RECURSIVE FoundLoop(_, _, _, _)
FoundLoop(templates, uri, database, disk) ==
    IF templates = <<>> THEN <<>>
    ELSE FoundFor(FormatTemplate(Head(templates), uri, database), disk)
         \o FoundLoop(Tail(templates), uri, database, disk)

\* file_finder.py:113-135  the path when one file is found, or
\* FileNotFoundError with one of two messages
FinderOutcome(found) ==
    IF Len(found) = 1
    THEN [status |-> "path", path |-> found[1], message |-> ""]
    ELSE IF Len(found) = 0
    THEN [status |-> "FileNotFoundError", path |-> <<>>,
          message |-> "Could not find file"]
    ELSE [status |-> "FileNotFoundError", path |-> <<>>,
          message |-> "found more than one"]

\* file_finder.py:79-135  FileFinder.__call__(current_file), as a whole.
\* self.registry.sources[database] raises KeyError when the database has no
\* source; a single template is put in a list.
FinderCall(uri, database) ==
    /\ Len(looked) < MaxLookups
    /\ LET value == fsources[database]
           path_templates == IF value.kind = "text" THEN <<value.template>>
                             ELSE value.templates
           result == IF value.kind = "none"
                     THEN [status |-> "KeyError", path |-> <<>>,
                           message |-> database]
                     ELSE FinderOutcome(
                              FoundLoop(path_templates, uri, database, fdisk))
       IN  looked' = Append(looked, [uri |-> uri, database |-> database,
                                     result |-> result, sources |-> fsources,
                                     disk |-> fdisk])
    /\ UNCHANGED <<fsources, fdisk>>

\* file_finder.py:49-61  a finder on a registry that has loaded its
\* sources; "db2" has no source or a single template
InitFind ==
    /\ RecIdle /\ FilesIdle /\ MetaIdle /\ RegIdle
    /\ ExpIdle /\ SubIdle /\ TriIdle /\ MergeIdle /\ LateIdle
    /\ fsources \in [FinderDatabases -> SourceValues]
    /\ fsources["db2"].kind # "list"
    /\ fsources["db1"].kind = "list"
    /\ fdisk \in SUBSET DiskFiles
    /\ looked = <<>>

NextFind ==
    \E uri \in FinderUris, database \in FinderDatabases :
        FinderCall(uri, database)
        /\ UNCHANGED <<oldVars, expVars, subVars, triVars, mergeVars, lateVars>>

SpecFind == InitFind /\ [][NextFind]_vars

\* the templates registered for a database
TemplatesOf(database) ==
    LET value == fsources[database]
    IN  IF value.kind = "none" THEN <<>>
        ELSE IF value.kind = "text" THEN <<value.template>>
        ELSE value.templates

\* the matches of a lookup: a file, under one of the templates of the
\* database
MatchesOf(uri, database) ==
    {m \in (1..Len(TemplatesOf(database))) \X fdisk :
        /\ m[2].uri = uri
        /\ \/ TemplatesOf(database)[m[1]] = "*"
           \/ TemplatesOf(database)[m[1]] = m[2].dir
           \/ /\ TemplatesOf(database)[m[1]] = "{database}"
              /\ m[2].dir = database}

\* the files that match a lookup under some template of the database
FilesMatching(uri, database) == {m[2] : m \in MatchesOf(uri, database)}

\* C19: a lookup returns a path if and only if exactly one file
\* matches over all the templates of the database of the record; with no
\* matching file it raises an error, with several it raises another error; a
\* lookup that fails changes neither the registry nor the outcome of the
\* lookups made after it.
C19_FileLookup ==
    \A i \in 1..Len(looked) :
        LET l == looked[i]
            files == FilesMatching(l.uri, l.database)
        IN  /\ l.result.status = "path" <=> Cardinality(files) = 1
            /\ l.result.status = "path" => l.result.path \in files
            /\ Cardinality(files) = 0
                  => /\ l.result.status \in {"KeyError", "FileNotFoundError"}
                     /\ l.result.message # "found more than one"
            /\ Cardinality(files) > 1
                  => /\ l.result.status = "FileNotFoundError"
                     /\ l.result.message = "found more than one"
            /\ l.sources = fsources
            /\ \A j \in 1..Len(looked) :
                  (looked[j].uri = l.uri /\ looked[j].database = l.database)
                     => looked[j].result = l.result

(***************************************************************************)
(* _load_protocols and _merge_protocols_inplace (registry.py:338-388,      *)
(* 454-513) on the dicts themselves, for one database: `protocols` maps    *)
(* the (task, protocol) keys that the entries declare to the classes made  *)
(* for them, and is merged with the dict of the database when the database *)
(* is already registered.  A class is named by the call that made it.      *)
(***************************************************************************)
MaxLoads == 3

MergeKeys == {<<"SpeakerDiarization", "P1">>, <<"SpeakerDiarization", "P2">>}

\* the keys that db_entries declares, in the order of the file
DeclaredKeys ==
    {ks \in UNION {[1..n -> MergeKeys] : n \in 0..Cardinality(MergeKeys)} :
        \A i, j \in 1..Len(ks) : i # j => ks[i] # ks[j]}

\* registry.py:359-371  the dict `protocols`: a new class for each key
DeclaredProtocols(ks, n) == [i \in 1..Len(ks) |-> <<ks[i], n>>]

\* (mutation of KeepPrevious: a protocol that is not redefined is dropped)
KeepPrevious_dropped(new_protocols, p_id, old_p) == new_protocols

\* registry.py:511-513  no conflict: keep the previously defined protocol
KeepPrevious(new_protocols, p_id, old_p) == DictSet(new_protocols, p_id, old_p)

\* registry.py:484-513  the loop of _merge_protocols_inplace over
\* old_protocols.items(): new_protocols as it is modified, the keys warned
\* about, and whether RuntimeError is raised
RECURSIVE merge_protocols_inplace(_, _, _, _, _)
merge_protocols_inplace(new_protocols, old_protocols, mode, i, warned) ==
    IF i > Len(old_protocols)
    THEN [raised |-> FALSE, protocols |-> new_protocols, warned |-> warned]
    ELSE LET p_id == old_protocols[i][1]
             old_p == old_protocols[i][2]
         IN  IF DictHas(new_protocols, p_id)
             THEN IF MustRaise(mode)
                  THEN [raised |-> TRUE, protocols |-> new_protocols,
                        warned |-> warned]
                  ELSE merge_protocols_inplace(
                          DictSet(new_protocols, p_id,
                                  Redefined(mode, DictGet(new_protocols, p_id),
                                            old_p)),
                          old_protocols, mode, i + 1, Append(warned, p_id))
             ELSE merge_protocols_inplace(
                     KeepPrevious(new_protocols, p_id, old_p),
                     old_protocols, mode, i + 1, warned)

\* registry.py:338-388  _load_protocols(db_name, db_entries, database_yml,
\* mode), as a whole
LoadProtocols(ks, mode) ==
    /\ loads < MaxLoads
    /\ LET protocols == DeclaredProtocols(ks, loads + 1)
           m == IF inDatabases
                THEN merge_protocols_inplace(protocols, registered, mode, 1,
                                             <<>>)
                ELSE [raised |-> FALSE, protocols |-> protocols,
                      warned |-> <<>>]
       IN  /\ loads' = loads + 1
           /\ previous' = registered
           /\ declared' = protocols
           /\ mergeMode' = mode
           /\ warnings' = m.warned
           /\ IF m.raised
              THEN /\ mergeOutcome' = "RuntimeError"
                   /\ UNCHANGED <<inDatabases, registered>>
              ELSE /\ mergeOutcome' = "ok"
                   /\ inDatabases' = TRUE
                   /\ registered' = m.protocols

\* registry.py:169  self.databases is empty
InitMerge ==
    /\ RecIdle /\ FilesIdle /\ MetaIdle /\ RegIdle
    /\ ExpIdle /\ SubIdle /\ TriIdle /\ FindIdle /\ LateIdle
    /\ inDatabases = FALSE
    /\ registered = <<>>
    /\ loads = 0
    /\ previous = <<>>
    /\ declared = <<>>
    /\ mergeMode = ""
    /\ warnings = <<>>
    /\ mergeOutcome = ""

NextMerge ==
    \E ks \in DeclaredKeys, mode \in Modes :
        LoadProtocols(ks, mode)
        /\ UNCHANGED <<oldVars, expVars, subVars, triVars, findVars, lateVars>>

SpecMerge == InitMerge /\ [][NextMerge]_vars

\* the keys declared on both sides of the last merge
DeclaredTwice ==
    {k \in MergeKeys : DictHas(previous, k) /\ DictHas(declared, k)}

\* C20: merging the protocols that a source declares for a database with
\* those registered for it drops no triple: when the merge does not raise,
\* the resulting dict has every key registered before and every key newly
\* declared; when no key is on both sides, the merge raises nothing, warns
\* about nothing, and every entry registered before keeps its definition.
C20_MergeKeepsAll ==
    /\ mergeOutcome = "ok"
          => \A k \in MergeKeys :
                (DictHas(previous, k) \/ DictHas(declared, k))
                   => DictHas(registered, k)
    /\ (loads > 0 /\ DeclaredTwice = {})
          => /\ mergeOutcome = "ok"
             /\ warnings = <<>>
             /\ \A k \in MergeKeys :
                   DictHas(previous, k)
                      => /\ DictHas(registered, k)
                         /\ DictGet(registered, k) = DictGet(previous, k)

\* a source has declared a key for a database that had another key, in mode
\* ERROR: the database now has both, the old one with its definition
C20_Witness ==
    /\ mergeOutcome = "ok" /\ mergeMode = "ERROR"
    /\ previous # <<>> /\ declared # <<>> /\ DeclaredTwice = {}
    /\ warnings = <<>>
    /\ Len(registered) = Len(previous) + Len(declared)

(***************************************************************************)
(* Claims about the evaluation guard of ProtocolFile (evaluating_,         *)
(* protocol.py:68-72 and 81-100), checked under SpecRec                    *)
(***************************************************************************)
\* k is pending, not being evaluated, and its loader reads only `dep`
LoaderReads(k, dep) ==
    /\ DictHas(lazy, k) /\ evaluating[k] = 0
    /\ DictGet(lazy, k).deps = <<dep>>

\* C21: while the loader of k runs, a get(k) made from inside it, directly
\* or through the loader of another key, does not start k's loader again:
\* it returns the eager value of k when there is one and raises KeyError
\* otherwise.  Hence no get starts the loader of a key more than once, and
\* loaders that read themselves or each other end.
C21_NoReentry ==
    [][\A k \in Keys : GetStep(k) =>
          /\ \A j \in Keys : calls'[j] <= calls[j] + 1
          /\ LoaderReads(k, k) =>
                IF ~DictHas(store, k) THEN last'.status = "KeyError"
                ELSE last'.status = "ok" =>
                        last'.out = LoaderValue(<<DictGet(store, k)>>)
          /\ \A j \in Keys \ {k} :
                (LoaderReads(k, j) /\ LoaderReads(j, k)) =>
                   IF ~DictHas(store, k) THEN last'.status = "KeyError"
                   ELSE last'.status = "ok" =>
                      /\ DictGet(store', j) = LoaderValue(<<DictGet(store, k)>>)
                      /\ last'.out = LoaderValue(<<DictGet(store', j)>>)]_vars

\* get(k) has run two loaders that read each other, k being eager too: both
\* ran once and both keys are eager now
C21_Witness ==
    /\ last.op = "get" /\ last.status = "ok" /\ last.ran
    /\ \A j \in Keys : calls[j] = 1 /\ evaluating[j] = 0
    /\ lazy = <<>>
    /\ last.out = LoaderValue(<<DictGet(store, CHOOSE j \in Keys : j # last.key)>>)
    /\ last.before.op = "init"

\* the keys that are in both maps
InBoth(s, l) == {k \in Keys : DictHas(s, k) /\ DictHas(l, k)}

\* the step is a caller's set of k
SetStep(k) == last'.op = "set" /\ last'.key = k

\* C22 (as stated): in every state of a record that a caller can observe,
\* after construction and after any sequence of get, set and delete, no key
\* is in both the eager map and the pending map.
C22_Original == InBoth(store, lazy) = {}

\* C22 (amended): no operation puts a key in both the eager map and the
\* pending map, and after a get of k that ran the loader of k and returned,
\* a set of k or a delete of k, k is not in both: a key is in both maps only
\* if the record was constructed with it in both and since then its loader
\* has not returned and it has not been set or deleted.
C22_NoKeyInBoth ==
    [][/\ InBoth(store', lazy') \subseteq InBoth(store, lazy)
       /\ \A k \in Keys :
             (\/ GetStep(k) /\ last'.status = "ok" /\ calls'[k] # calls[k]
              \/ SetStep(k)
              \/ DeleteStep(k))
                => k \notin InBoth(store', lazy')]_vars

\* a get has run the loader of a key that was eager too, and now only the
\* other key is in both maps
C22_Witness ==
    /\ last.op = "get" /\ last.status = "ok" /\ last.ran
    /\ last.before.op = "init"
    /\ Len(store) = Cardinality(Keys)
    /\ calls[last.key] = 1 /\ \A j \in Keys \ {last.key} : calls[j] = 0
    /\ InBoth(store, lazy) = Keys \ {last.key}

\* C25: when the loader of k raises during get(k), the exception reaches the
\* caller as it is, k stays pending and the guard of k stays raised; every
\* later get(k) skips the loader, which is never tried again, changes
\* nothing, and returns the eager value of k when there is one and raises
\* KeyError otherwise.
C25_LoaderRaises ==
    [][\A k \in Keys : GetStep(k) =>
          /\ (calls'[k] # calls[k] /\ last'.status # "ok")
                => /\ DictHas(lazy', k)
                   /\ evaluating'[k] = evaluating[k] + 1
                   /\ (DictGet(lazy, k).deps = <<>>)
                         => last'.status = "LoaderError"
          /\ evaluating[k] > 0
                => /\ RecordUnchanged
                   /\ IF DictHas(store, k)
                      THEN last'.status = "ok" /\ last'.out = DictGet(store, k)
                      ELSE last'.status = "KeyError"]_vars

\* a get of a key whose loader had raised has returned the eager value of
\* the key, without running the loader, which is still pending
C25_Witness ==
    /\ last.op = "get" /\ last.status = "ok" /\ ~last.ran
    /\ last.before.op = "get" /\ last.before.key = last.key
    /\ calls[last.key] = 1 /\ evaluating[last.key] = 1
    /\ DictHas(lazy, last.key)
    /\ DictGet(lazy, last.key).raises
    /\ last.out = DictGet(store, last.key)

(***************************************************************************)
(* A claim about the progress attribute, checked under SpecFiles           *)
(***************************************************************************)
\* C24: files() remembers the progress attribute of the protocol when it
\* starts and reverts it when it ends: once an iteration of files() has run
\* to completion, the attribute has the value it had before the call.
C24_ProgressReverted == fpc = "done" => progress = savedProgress

(***************************************************************************)
(* More claims about the Registry, checked under SpecReg                   *)
(***************************************************************************)
\* the files that the helper has finished with, in the events `evs`
DonePaths(evs) == {evs[i].path : i \in {j \in 1..Len(evs) : evs[j].e = "done"}}

\* the step ends a load_database call with the RuntimeError of a conflict
ConflictStep == rpc # "idle" /\ rpc' = "idle" /\ outcome' = "RuntimeError"

\* C26: a load_database call that fails on a protocol conflict in mode ERROR
\* is not undone.  The databases of the failing source that were processed
\* before the conflicting one stay registered, and so does every source
\* required that the call had finished with: its protocols, its path
\* templates and its entry in configs.  The call does not record the
\* failing source in configs, does not register its path templates and does
\* not reload the meta-protocols.
C26_FailedLoadNotAtomic ==
    [][/\ ConflictStep =>
            /\ call.mode = "ERROR"
            /\ UNCHANGED <<configs, sources, databases>>
            /\ \A i \in 1..Len(events) :
                  (events[i].path = Top.path
                      /\ events[i].e \in {"protocols", "protocols-warn"})
                    => \A key \in ProtocolKeys :
                          Declares(Top.path, events[i].db, key)
                            => get_protocol(databases', events[i].db, key)
                                 = Top.path
            /\ \A q \in DonePaths(events) :
                  /\ q \in Range(configs')
                  /\ \A db \in yml[q].Databases : sources'[db] \in DonePaths(events)
                  /\ \A db \in DBs, key \in ProtocolKeys :
                        Declares(q, db, key)
                          => get_protocol(databases', db, key) = q
            /\ \A i \in 1..Len(stack) : stack[i].path \notin DonePaths(events')
            /\ Range(configs') = Range(cfgBefore) \cup DonePaths(events)
            /\ \A i \in 1..Len(events') : events'[i].e # "reload"
       /\ (sources' # sources \/ configs' # configs)
            => \E q \in Paths : events' = Append(events, Event("done", q, ""))]_vars

\* a call in mode ERROR has raised on the meta-database of a file, after the
\* file it requires was saved and after the ordinary database of the file
\* was registered: both are registered, and only the required file is in
\* configs
C26_Witness ==
    /\ rpc = "idle" /\ outcome = "RuntimeError"
    /\ events[Len(events)].e = "raise" /\ events[Len(events)].db = MetaDB
    /\ events[Len(events)].path = call.path
    /\ \E q \in DonePaths(events) :
          /\ q # call.path
          /\ q \notin Range(cfgBefore)
          /\ configs = Append(cfgBefore, q)
          /\ \E key \in ProtocolKeys : get_protocol(databases, MetaDB, key) = q
    /\ \E key \in ProtocolKeys, db \in OrdinaryDBs :
          /\ ~IsRegistered(dbBefore, db, key)
          /\ get_protocol(databases, db, key) = call.path

\* the files processed so far that have a "Databases" entry for db
TemplateDeclarers(db) == {q \in Range(lastLoaded) : db \in yml[q].Databases}

\* C29: the path templates are last-writer-wins whatever the mode: sources[db]
\* is the template list of the most recently processed file that has a
\* "Databases" entry for db, also when the load was in mode KEEP and the
\* protocols of db kept their earlier definition; the templates of earlier
\* files are replaced.
C29_SourcesLastWriter ==
    \A db \in OrdinaryDBs :
        sources[db] = IF TemplateDeclarers(db) = {} THEN NoPath
                      ELSE LatestIn(lastLoaded, TemplateDeclarers(db))

\* a load in mode KEEP has returned: the protocol of the database is still
\* the one of the file loaded first, and the templates of the database are
\* those of the file just loaded
C29_Witness ==
    /\ Returned /\ call.mode = "KEEP"
    /\ \E db \in OrdinaryDBs, key \in ProtocolKeys :
          /\ IsRegistered(dbBefore, db, key)
          /\ get_protocol(dbBefore, db, key) # call.path
          /\ get_protocol(databases, db, key) = get_protocol(dbBefore, db, key)
          /\ sources[db] = call.path
          /\ Cardinality(TemplateDeclarers(db)) = 2

(***************************************************************************)
(* Nested meta-subsets.  A subset of a protocol of X is the generator      *)
(* meta_subset_iter bound to its entries (custom.py:490-499); for each     *)
(* protocol that the entries name it calls registry.get_protocol, where    *)
(* `registry` is the instance made at registry.py:517, and iterates the    *)
(* subset of the protocol it gets (custom.py:185-192), which may be a      *)
(* meta-subset again.  Here every protocol has the one subset "train".     *)
(***************************************************************************)
MaxNest == 3

\* "D.T.P" is a protocol of an ordinary database, the others are of X
NestNames == {"D.T.P", "X.T.M1", "X.T.M2"}

MetaNames == {"X.T.M1", "X.T.M2"}

\* the entries of a meta-subset: the protocols it names, a dict
NestEntries ==
    {e \in UNION {[1..n -> NestNames] : n \in 0..2} :
        \A i, j \in 1..Len(e) : i # j => e[i] # e[j]}

\* what a registry has for a name: nothing, a protocol made by subset_iter
\* from the entries of a file (version: which file), or a meta-protocol
Unregistered == [kind |-> "none"]

OrdinaryProtocol(v) == [kind |-> "files", version |-> v]

MetaProtocol(e) == [kind |-> "meta", entries |-> e]

\* the files of the subset of an ordinary protocol: one, which tells the
\* definition it comes from
SubsetFilesOf(name, def) == <<[protocol |-> name, version |-> def.version]>>

\* (mutation of Resolve: a protocol is looked for in every registry)
Resolve_anywhere(name) ==
    IF singleton[name].kind = "none" THEN other[name] ELSE singleton[name]

\* custom.py:185-188  registry.get_protocol(protocol): the protocol that
\* the instance `registry` of the package has under that name, now
Resolve(name) == singleton[name]

\* (mutation of Revisits: a protocol being iterated is not iterated again)
Revisits_guarded(frames, name) ==
    \A i \in 1..Len(frames) : frames[i].name # name

\* custom.py:187-191  a protocol that the entries name is iterated,
\* whatever generators are already running
Revisits(frames, name) == TRUE

NestFrame(name, e) == [name |-> name, entries |-> e, i |-> 1]

NestTop == nstack[Len(nstack)]

\* a load_database that overrides the definition of a protocol of the
\* singleton (registry.py:497-502, 390-402); any entries are accepted for a
\* meta-protocol (custom.py:489-499)
NestLoad(name, e) ==
    /\ ~nloaded
    /\ nloaded' = TRUE
    /\ singleton' =
          [singleton EXCEPT ![name] =
              IF name \in MetaNames THEN MetaProtocol(e)
              ELSE OrdinaryProtocol(IF @.kind = "none" THEN 1 ELSE @.version + 1)]
    /\ nchanged' = (nchanged \/ npc # "idle")
    /\ UNCHANGED <<other, npc, nstart, nstack, nout>>

\* Registry().load_database(...): the protocol of the ordinary database is
\* loaded in another instance
NestLoadOther ==
    /\ ~nloaded
    /\ nloaded' = TRUE
    /\ other' = [other EXCEPT !["D.T.P"] = OrdinaryProtocol(1)]
    /\ nchanged' = (nchanged \/ npc # "idle")
    /\ UNCHANGED <<singleton, npc, nstart, nstack, nout>>

\* registry.get_protocol(name).train(): the subset of a meta-protocol of
\* the singleton starts to be iterated
NestStart(name) ==
    /\ npc # "running"
    /\ singleton[name].kind = "meta"
    /\ npc' = "running"
    /\ nstart' = name
    /\ nstack' = <<NestFrame(name, singleton[name].entries)>>
    /\ nout' = <<>>
    /\ nchanged' = FALSE
    /\ UNCHANGED <<singleton, other, nloaded>>

\* custom.py:187-192  the innermost generator goes to the next protocol of
\* its entries: get_protocol raises, or the files of its subset are
\* yielded, or a generator is made for its meta-subset
NestNext ==
    /\ npc = "running"
    /\ NestTop.i <= Len(NestTop.entries)
    /\ LET name == NestTop.entries[NestTop.i]
           def == Resolve(name)
           advanced == [nstack EXCEPT ![Len(nstack)].i = @ + 1]
       IN  IF def.kind = "none"
           THEN /\ npc' = "raised"
                /\ nstack' = <<>>
                /\ nout' = nout
           ELSE IF def.kind = "files"
           THEN /\ nout' = nout \o SubsetFilesOf(name, def)
                /\ nstack' = advanced
                /\ npc' = npc
           ELSE IF ~Revisits(nstack, name)
           THEN /\ nstack' = advanced
                /\ UNCHANGED <<npc, nout>>
           ELSE IF Len(nstack) >= MaxNest
           THEN \* the generators nest further: not followed
                /\ npc' = "deeper"
                /\ UNCHANGED <<nstack, nout>>
           ELSE /\ nstack' = Append(advanced, NestFrame(name, def.entries))
                /\ UNCHANGED <<npc, nout>>
    /\ UNCHANGED <<singleton, other, nloaded, nstart, nchanged>>

\* custom.py:187  the entries of the innermost generator are exhausted: it
\* returns, and the iteration ends with the outermost one
NestReturn ==
    /\ npc = "running"
    /\ NestTop.i > Len(NestTop.entries)
    /\ nstack' = SubSeq(nstack, 1, Len(nstack) - 1)
    /\ npc' = IF Len(nstack) = 1 THEN "done" ELSE npc
    /\ UNCHANGED <<singleton, other, nloaded, nstart, nout, nchanged>>

\* registry.py:517 and a first load: the singleton has any protocols,
\* another instance has none
InitNest ==
    /\ RecIdle /\ FilesIdle /\ MetaIdle /\ RegIdle
    /\ ExpIdle /\ SubIdle /\ TriIdle /\ FindIdle /\ MergeIdle /\ ThrIdle
    /\ singleton \in [NestNames -> {Unregistered, OrdinaryProtocol(1)}
                                      \cup {MetaProtocol(e) : e \in NestEntries}]
    /\ \A name \in NestNames :
          singleton[name].kind \in
             IF name \in MetaNames THEN {"none", "meta"} ELSE {"none", "files"}
    /\ other = [name \in NestNames |-> Unregistered]
    /\ nloaded = FALSE
    /\ npc = "idle"
    /\ nstart = ""
    /\ nstack = <<>>
    /\ nout = <<>>
    /\ nchanged = FALSE

NextNest ==
    \/ \E name \in NestNames, e \in NestEntries :
          NestLoad(name, e) /\ UNCHANGED <<oldVars, expVars, subVars, triVars,
                                           findVars, mergeVars, thrVars>>
    \/ NestLoadOther /\ UNCHANGED <<oldVars, expVars, subVars, triVars,
                                    findVars, mergeVars, thrVars>>
    \/ \E name \in MetaNames :
          NestStart(name) /\ UNCHANGED <<oldVars, expVars, subVars, triVars,
                                         findVars, mergeVars, thrVars>>
    \/ NestNext /\ UNCHANGED <<oldVars, expVars, subVars, triVars,
                               findVars, mergeVars, thrVars>>
    \/ NestReturn /\ UNCHANGED <<oldVars, expVars, subVars, triVars,
                                 findVars, mergeVars, thrVars>>

SpecNest == InitNest /\ [][NextNest]_vars

\* the caller goes on asking the iteration for its next file
SpecNestFair ==
    SpecNest /\ WF_nestVars(NestNext) /\ WF_nestVars(NestReturn)

(***************************************************************************)
(* Claims about nested meta-subsets, checked under SpecNest.  nchanged     *)
(* tells that a registry was loaded after the iteration had been started.  *)
(***************************************************************************)
RECURSIVE MetaFiles(_, _, _)
\* the files of the protocols that entries e name from position i on, as
\* the singleton has them now, meta-subsets followed n levels down
MetaFiles(e, i, n) ==
    IF i > Len(e) THEN <<>>
    ELSE LET def == singleton[e[i]]
             here == IF def.kind = "files" THEN SubsetFilesOf(e[i], def)
                     ELSE IF def.kind = "meta" /\ n > 0
                     THEN MetaFiles(def.entries, 1, n - 1)
                     ELSE <<>>
         IN  here \o MetaFiles(e, i + 1, n)

\* the innermost generator is to ask for a protocol that the singleton
\* lacks (it does when its stack changes)
NestAsksMissing ==
    /\ npc = "running"
    /\ NestTop.i <= Len(NestTop.entries)
    /\ singleton[NestTop.entries[NestTop.i]].kind = "none"

\* C27: a meta-subset resolves the protocols it names through the
\* singleton registry when it is iterated: an iteration that ends, with no
\* load since it started, has yielded the files of the definitions that
\* the singleton has now (those of a later load that overrode a protocol
\* before the iteration started), and a protocol that the singleton lacks
\* is not found, loaded in another Registry instance or not.
C27_ResolvedAtIteration ==
    /\ [](npc = "done" /\ ~nchanged
            => nout = MetaFiles(singleton[nstart].entries, 1, MaxNest))
    /\ [][NestAsksMissing /\ nstack' # nstack
             => npc' = "raised" /\ nout' = nout]_vars

\* an iteration started after a load that overrode the ordinary protocol
\* has ended and has yielded the file of the new definition
C27_Witness ==
    /\ npc = "done"
    /\ ~nchanged
    /\ nloaded
    /\ \E i \in 1..Len(nout) : nout[i].version = 2

\* the meta-protocols that the entries of meta-protocol m name
MetaRefs(m) ==
    IF singleton[m].kind # "meta" THEN {}
    ELSE {singleton[m].entries[i] : i \in 1..Len(singleton[m].entries)}
            \cap MetaNames

RECURSIVE MetaReach(_, _)
\* the meta-protocols reached from those of S in at most n references
MetaReach(S, n) ==
    IF n = 0 THEN S
    ELSE MetaReach(S \cup UNION {MetaRefs(m) : m \in S}, n - 1)

\* a meta-protocol reachable from m lists itself, directly or through
\* other meta-protocols
NestCyclic(m) ==
    \E c \in MetaReach({m}, Cardinality(MetaNames)) :
        c \in MetaReach(MetaRefs(c), Cardinality(MetaNames))

\* C28: with no load since it started, the iteration of a meta-subset
\* whose references are acyclic ends (exhausted, or with the error of a
\* protocol that is not registered) and never nests without bound, while
\* that of a meta-subset from which a meta-subset that lists itself is
\* reachable is never exhausted: nothing refuses it when it is loaded or
\* when it is iterated.
C28_TerminatesIffAcyclic ==
    /\ [](npc = "done" /\ ~nchanged => ~NestCyclic(nstart))
    /\ [](npc = "deeper" /\ ~nchanged => NestCyclic(nstart))
    /\ (npc = "running" /\ ~nchanged /\ ~NestCyclic(nstart))
          ~> (npc \in {"done", "raised"} \/ nchanged)

\* a load has made a meta-subset list itself, and its iteration nests
\* beyond the depth that is followed
C28_Witness ==
    /\ npc = "deeper"
    /\ nloaded
    /\ ~nchanged
    /\ nstart \in MetaRefs(nstart)

(***************************************************************************)
(* Threads on ProtocolFile records.  Every method body is run under the    *)
(* RLock of the record (protocol.py:65, 79, 105, 113, 121, 132); a thread  *)
(* takes the steps of a method one at a time, so that what another thread  *)
(* may do between two of them is what the lock lets it do.  A record has   *)
(* the eager key "a" and the key "k", pending at first.  A dict is the     *)
(* sequence of its entries in insertion order; a deleted entry stays in    *)
(* it as a hole, which is what a dict iterator goes through.               *)
(***************************************************************************)
MaxThrOps == 4

ThrRecs == {1, 2}

Threads == {"t1", "t2"}

NoThread == "none"

Eager == [by |-> "eager", run |-> 0]

Assigned == [by |-> "set", run |-> 0]

\* the loader of "k", as the value of lazy["k"]
Loader == [by |-> "callable", run |-> 0]

\* the value that the n-th run of the loader of "k" computes
Computed(n) == [by |-> "loader", run |-> n]

Entry(key, val) == [key |-> key, val |-> val, live |-> TRUE]

Live(E) == {i \in 1..Len(E) : E[i].live}

EHas(E, key) == \E i \in Live(E) : E[i].key = key

EIndex(E, key) == CHOOSE i \in Live(E) : E[i].key = key

EGet(E, key) == E[EIndex(E, key)].val

ESet(E, key, val) ==
    IF EHas(E, key) THEN [E EXCEPT ![EIndex(E, key)].val = val]
    ELSE Append(E, Entry(key, val))

EDel(E, key) == [E EXCEPT ![EIndex(E, key)].live = FALSE]

\* protocol.py:65  self.lock_ = threading.RLock(): a lock of the record
LockOf(r) == r

\* (mutation of CanAcquire: the lock lets every thread in)
CanAcquire_free(t, r) == TRUE

\* protocol.py:79  with self.lock_: an RLock is acquired by a thread when
\* no other thread owns it
CanAcquire(t, r) == owner[LockOf(r)] \in {NoThread, t}

\* the lock of record r once thread t has acquired it (once more)
Acquired(t, r) ==
    /\ owner' = [owner EXCEPT ![LockOf(r)] = t]
    /\ depth' = [depth EXCEPT ![LockOf(r)] = @ + 1]

\* the lock of record r once the with block is left
Released(r) ==
    /\ depth' = [depth EXCEPT ![LockOf(r)] = IF @ > 0 THEN @ - 1 ELSE @]
    /\ owner' = [owner EXCEPT ![LockOf(r)] = IF depth[LockOf(r)] > 1 THEN @
                                             ELSE NoThread]

ThrIdleThread == [pc |-> "idle", op |-> "get", rec |-> 1, val |-> Eager]

NoIter == [rec |-> 1, phase |-> "none", pos |-> 0, left |-> 0, used |-> 0]

\* a thread calls record[k], record[k] = value or del record[k]
ThrCall(t, op, r) ==
    /\ th[t].pc = "idle"
    /\ tops < MaxThrOps
    /\ tops' = tops + 1
    /\ th' = [th EXCEPT ![t] = [pc |-> "acquire", op |-> op, rec |-> r,
                                val |-> Eager]]
    /\ UNCHANGED <<rstore, rlazy, reval, owner, depth, it, rruns, rmoved, got>>

\* protocol.py:79, 105, 113  with self.lock_
ThrAcquire(t) ==
    /\ th[t].pc = "acquire"
    /\ CanAcquire(t, th[t].rec)
    /\ Acquired(t, th[t].rec)
    /\ th' = [th EXCEPT ![t].pc = IF th[t].op = "get" THEN "check" ELSE "body"]
    /\ UNCHANGED <<rstore, rlazy, reval, it, rruns, rmoved, got, tops>>

\* protocol.py:81  the evaluation guard
ThrCheck(t) ==
    /\ th[t].pc = "check"
    /\ th' = [th EXCEPT ![t].pc =
                 IF EHas(rlazy[th[t].rec], "k") /\ reval[th[t].rec] = 0
                 THEN "mark" ELSE "read"]
    /\ UNCHANGED <<rstore, rlazy, reval, owner, depth, it, rruns, rmoved, got,
                   tops>>

\* protocol.py:84  self.evaluating_.update([key])
ThrMark(t) ==
    /\ th[t].pc = "mark"
    /\ reval' = [reval EXCEPT ![th[t].rec] = @ + 1]
    /\ th' = [th EXCEPT ![t].pc = "loader"]
    /\ UNCHANGED <<rstore, rlazy, owner, depth, it, rruns, rmoved, got, tops>>

\* protocol.py:87  value = self.lazy[key](self); a KeyError leaves the
\* with block
ThrLoader(t) ==
    /\ th[t].pc = "loader"
    /\ LET r == th[t].rec
       IN  IF EHas(rlazy[r], "k")
           THEN /\ rruns' = [rruns EXCEPT ![r] = @ + 1]
                /\ th' = [th EXCEPT ![t].pc = "move",
                                    ![t].val = Computed(rruns[r] + 1)]
                /\ UNCHANGED <<owner, depth>>
           ELSE /\ th' = [th EXCEPT ![t].pc = "idle"]
                /\ Released(r)
                /\ UNCHANGED rruns
    /\ UNCHANGED <<rstore, rlazy, reval, it, rmoved, got, tops>>

\* protocol.py:88-100  del self.lazy[key], self._store[key] = value and
\* the end of the evaluation
ThrMove(t) ==
    /\ th[t].pc = "move"
    /\ LET r == th[t].rec
       IN  IF EHas(rlazy[r], "k")
           THEN /\ rlazy' = [rlazy EXCEPT ![r] = EDel(@, "k")]
                /\ rstore' = [rstore EXCEPT ![r] = ESet(@, "k", th[t].val)]
                /\ reval' = [reval EXCEPT ![r] = @ - 1]
                /\ rmoved' = [rmoved EXCEPT ![r] = @ + 1]
                /\ th' = [th EXCEPT ![t].pc = "read"]
                /\ UNCHANGED <<owner, depth>>
           ELSE /\ th' = [th EXCEPT ![t].pc = "idle"]
                /\ Released(r)
                /\ UNCHANGED <<rlazy, rstore, reval, rmoved>>
    /\ UNCHANGED <<it, rruns, got, tops>>

\* protocol.py:102  return self._store[key], or its KeyError
ThrRead(t) ==
    /\ th[t].pc = "read"
    /\ LET r == th[t].rec
       IN  /\ got' = IF EHas(rstore[r], "k")
                     THEN [got EXCEPT ![r] = @ \cup {EGet(rstore[r], "k")}]
                     ELSE got
           /\ Released(r)
    /\ th' = [th EXCEPT ![t].pc = "idle"]
    /\ UNCHANGED <<rstore, rlazy, reval, it, rruns, rmoved, tops>>

\* protocol.py:107-110, 115-118  the body of __setitem__ or __delitem__
ThrBody(t) ==
    /\ th[t].pc = "body"
    /\ LET r == th[t].rec
       IN  /\ rlazy' = [rlazy EXCEPT ![r] = IF EHas(@, "k") THEN EDel(@, "k")
                                            ELSE @]
           /\ rstore' = [rstore EXCEPT ![r] =
                            IF th[t].op = "set" THEN ESet(@, "k", Assigned)
                            ELSE IF EHas(@, "k") THEN EDel(@, "k")
                            ELSE @]
           /\ Released(r)
    /\ th' = [th EXCEPT ![t].pc = "idle"]
    /\ UNCHANGED <<reval, it, rruns, rmoved, got, tops>>

\* protocol.py:120  iter(record): a generator that has not started
ThrIter(t, r) ==
    /\ th[t].pc = "idle"
    /\ it[t].phase = "none"
    /\ tops < MaxThrOps
    /\ tops' = tops + 1
    /\ it' = [it EXCEPT ![t] = [NoIter EXCEPT !.rec = r, !.phase = "new"]]
    /\ UNCHANGED <<rstore, rlazy, reval, owner, depth, th, rruns, rmoved, got>>

\* a dict iterator over the entries E of a dict, as it is made
DictIter(r, phase, E) ==
    [rec |-> r, phase |-> phase, pos |-> 0,
     left |-> Cardinality(Live(E)), used |-> Cardinality(Live(E))]

\* next() of dict iterator s over entries E: RuntimeError when the dict
\* has changed size or has a key that is not expected, else the next entry
\* that is not a hole
DictNext(s, E) ==
    LET after == {i \in Live(E) : i > s.pos}
    IN  IF Cardinality(Live(E)) # s.used THEN [out |-> "error", s |-> s]
        ELSE IF after = {} THEN [out |-> "stop", s |-> s]
        ELSE IF s.left = 0 THEN [out |-> "error", s |-> s]
        ELSE LET i == CHOOSE j \in after : \A m \in after : j <= m
             IN  [out |-> "yield",
                  s |-> [s EXCEPT !.pos = i, !.left = @ - 1]]

RECURSIVE LazyLoop(_, _, _)
\* protocol.py:126-129  the keys of lazy, but those that _store has
LazyLoop(s, S, L) ==
    LET n == DictNext(s, L)
    IN  IF n.out = "yield" /\ EHas(S, L[n.s.pos].key)
        THEN LazyLoop(n.s, S, L)
        ELSE n

\* protocol.py:123-129  the generator up to its next yield
IterNext(s, S, L) ==
    LET s0 == IF s.phase = "new" THEN DictIter(s.rec, "store", S) ELSE s
    IN  IF s0.phase = "lazy" THEN LazyLoop(s0, S, L)
        ELSE LET n == DictNext(s0, S)
             IN  IF n.out = "stop"
                 THEN LazyLoop(DictIter(s.rec, "lazy", L), S, L)
                 ELSE n

\* (mutation of HoldsAfter: the lock is released at every yield)
HoldsAfter_released(out) == FALSE

\* protocol.py:121-129  the with block is left when the generator ends,
\* not when it yields
HoldsAfter(out) == out = "yield"

\* next() on the generator: the first one enters the with block
ThrIterNext(t) ==
    /\ th[t].pc = "idle"
    /\ it[t].phase # "none"
    /\ LET r == it[t].rec
           n == IterNext(it[t], rstore[r], rlazy[r])
           l == LockOf(r)
           d == IF it[t].phase = "new" THEN depth[l] + 1 ELSE depth[l]
       IN  /\ it[t].phase = "new" => CanAcquire(t, r)
           /\ it' = [it EXCEPT ![t] = IF n.out = "yield" THEN n.s ELSE NoIter]
           /\ IF HoldsAfter(n.out)
              THEN /\ depth' = [depth EXCEPT ![l] = d]
                   /\ owner' = [owner EXCEPT ![l] = t]
              ELSE /\ depth' = [depth EXCEPT ![l] = IF d > 0 THEN d - 1 ELSE d]
                   /\ owner' = [owner EXCEPT ![l] = IF d > 1 THEN t
                                                    ELSE NoThread]
    /\ UNCHANGED <<rstore, rlazy, reval, th, rruns, rmoved, got, tops>>

\* the generator is closed or discarded: one that has yielded leaves the
\* with block
ThrIterClose(t) ==
    /\ th[t].pc = "idle"
    /\ it[t].phase # "none"
    /\ it' = [it EXCEPT ![t] = NoIter]
    /\ IF it[t].phase = "new" THEN UNCHANGED <<owner, depth>>
       ELSE Released(it[t].rec)
    /\ UNCHANGED <<rstore, rlazy, reval, th, rruns, rmoved, got, tops>>

\* protocol.py:61-72  records made with "a" precomputed and "k" lazy
InitThr ==
    /\ RecIdle /\ FilesIdle /\ MetaIdle /\ RegIdle
    /\ ExpIdle /\ SubIdle /\ TriIdle /\ FindIdle /\ MergeIdle /\ NestIdle
    /\ rstore = [r \in ThrRecs |-> <<Entry("a", Eager)>>]
    /\ rlazy = [r \in ThrRecs |-> <<Entry("k", Loader)>>]
    /\ reval = [r \in ThrRecs |-> 0]
    /\ owner = [r \in ThrRecs |-> NoThread]
    /\ depth = [r \in ThrRecs |-> 0]
    /\ th = [t \in Threads |-> ThrIdleThread]
    /\ it = [t \in Threads |-> NoIter]
    /\ rruns = [r \in ThrRecs |-> 0]
    /\ rmoved = [r \in ThrRecs |-> 0]
    /\ got = [r \in ThrRecs |-> {}]
    /\ tops = 0

ThrOthers == <<oldVars, expVars, subVars, triVars, findVars, mergeVars, nestVars>>

NextThr ==
    \/ \E t \in Threads, op \in {"get", "set", "del"}, r \in ThrRecs :
          ThrCall(t, op, r) /\ UNCHANGED ThrOthers
    \/ \E t \in Threads : ThrAcquire(t) /\ UNCHANGED ThrOthers
    \/ \E t \in Threads : ThrCheck(t) /\ UNCHANGED ThrOthers
    \/ \E t \in Threads : ThrMark(t) /\ UNCHANGED ThrOthers
    \/ \E t \in Threads : ThrLoader(t) /\ UNCHANGED ThrOthers
    \/ \E t \in Threads : ThrMove(t) /\ UNCHANGED ThrOthers
    \/ \E t \in Threads : ThrRead(t) /\ UNCHANGED ThrOthers
    \/ \E t \in Threads : ThrBody(t) /\ UNCHANGED ThrOthers
    \/ \E t \in Threads, r \in ThrRecs : ThrIter(t, r) /\ UNCHANGED ThrOthers
    \/ \E t \in Threads : ThrIterNext(t) /\ UNCHANGED ThrOthers
    \/ \E t \in Threads : ThrIterClose(t) /\ UNCHANGED ThrOthers

SpecThr == InitThr /\ [][NextThr]_vars

(***************************************************************************)
(* Claims about threads, checked under SpecThr.                            *)
(***************************************************************************)
\* thread u is inside a method of record r, or has an iteration of its
\* keys that has started and has not ended
UsesRecord(u, r) ==
    \/ th[u].pc \notin {"idle", "acquire"} /\ th[u].rec = r
    \/ it[u].phase \in {"store", "lazy"} /\ it[u].rec = r

\* thread t has called a method of record r and waits for its lock
WaitsFor(t, r) ==
    /\ th[t].pc = "acquire"
    /\ th[t].rec = r
    /\ ~CanAcquire(t, r)

\* C23: whatever the threads do, the loader of a pending key of a record
\* runs at most once and the key is moved at most once, exactly once each
\* when a get has returned a computed value; all the gets that return a
\* computed value return the same one; and a thread waits for a record
\* only while another thread is using that very record.
C23_EvaluatedOnce ==
    /\ \A r \in ThrRecs :
          /\ rruns[r] <= 1
          /\ rmoved[r] <= 1
          /\ Cardinality({v \in got[r] : v.by = "loader"}) <= 1
          /\ (\E v \in got[r] : v.by = "loader")
                => rruns[r] = 1 /\ rmoved[r] = 1
    /\ \A t \in Threads, r \in ThrRecs :
          WaitsFor(t, r) => \E u \in Threads \ {t} : UsesRecord(u, r)

\* two threads have called get on the same record while the key was
\* pending: one has a computed value from it, the other is about to return
\* after having waited, and the loader has run once
C23_Witness ==
    \E t \in Threads : \E u \in Threads \ {t} :
        /\ th[t].op = "get" /\ th[t].pc = "idle" /\ th[t].rec = 1
        /\ th[u].op = "get" /\ th[u].pc = "read" /\ th[u].rec = 1
        /\ tops = 2
        /\ got[1] = {Computed(1)}
        /\ rruns[1] = 1

\* thread t has an iteration of the keys of record r that has yielded a
\* key and has neither ended nor been discarded
Iterates(t, r) == it[t].phase \in {"store", "lazy"} /\ it[t].rec = r

\* C30: while a thread has a started, unfinished keys() iteration on a
\* record, no other thread is inside a get, a set or a delete of that
\* record or inside its own iteration of it: one that has called such a
\* method waits for the lock, which only the end of the iteration gives
\* back, while the iterating thread itself may take the lock again.
C30_IterationHoldsLock ==
    \A t \in Threads, r \in ThrRecs :
        Iterates(t, r) =>
            /\ owner[LockOf(r)] = t
            /\ depth[LockOf(r)] >= 1
            /\ CanAcquire(t, r)
            /\ \A u \in Threads \ {t} :
                  /\ ~UsesRecord(u, r)
                  /\ th[u].pc = "acquire" /\ th[u].rec = r => WaitsFor(u, r)

\* a thread has taken the first key of a record and is inside a get of
\* the same record, while the other thread waits to set a key of it
C30_Witness ==
    \E t \in Threads : \E u \in Threads \ {t} :
        /\ Iterates(t, 1)
        /\ it[t].pos = 1
        /\ th[t].pc = "read" /\ th[t].rec = 1
        /\ th[u].op = "set"
        /\ WaitsFor(u, 1)

====
